---------------------------- MODULE Spec2Model ----------------------------
(***************************************************************************)
(* A model of the chat backend of aninkafashion: the entity extractor, the *)
(* intent classifier, the in-memory conversation state store and the       *)
(* dialogue router (chatController.chat).                                   *)
(*                                                                         *)
(* Strings are sequences of one-character strings, so that substring       *)
(* search, word boundaries and the two id regexes are computed the way the *)
(* JavaScript code computes them.  Confidences are in hundredths           *)
(* (0.9 is 90).  JavaScript objects are functions from key to value, with  *)
(* an absent key outside the domain.                                       *)
(***************************************************************************)
EXTENDS Integers, Sequences, FiniteSets, TLC

(***************************************************************************)
(* Bounds of the model.                                                    *)
(***************************************************************************)
\* total number of chat requests accepted in one behaviour
MaxTurns == 2
\* number of direct calls of the store API in one behaviour
MaxStoreOps == 3

(***************************************************************************)
(* JavaScript string primitives.                                           *)
(***************************************************************************)
\* String.prototype.toLowerCase on the letters of the model's alphabet
LowerOf ==
   ("A" :> "a") @@ ("B" :> "b") @@ ("C" :> "c") @@ ("D" :> "d") @@
   ("E" :> "e") @@ ("F" :> "f") @@ ("G" :> "g") @@ ("H" :> "h") @@
   ("I" :> "i") @@ ("J" :> "j") @@ ("K" :> "k") @@ ("L" :> "l") @@
   ("M" :> "m") @@ ("N" :> "n") @@ ("O" :> "o") @@ ("P" :> "p") @@
   ("Q" :> "q") @@ ("R" :> "r") @@ ("S" :> "s") @@ ("T" :> "t") @@
   ("U" :> "u") @@ ("V" :> "v") @@ ("W" :> "w") @@ ("X" :> "x") @@
   ("Y" :> "y") @@ ("Z" :> "z")

toLowerCase(str) ==
   [i \in 1..Len(str) |->
      IF str[i] \in DOMAIN LowerOf THEN LowerOf[str[i]] ELSE str[i]]

\* String.prototype.includes
includes(str, kw) ==
   \E i \in 1..(Len(str) - Len(kw) + 1) : SubSeq(str, i, i + Len(kw) - 1) = kw

\* the regex class \d
Digits == {"0","1","2","3","4","5","6","7","8","9"}

\* the regex class \w
WordChars ==
   Digits \cup {"_"} \cup DOMAIN LowerOf \cup {LowerOf[c] : c \in DOMAIN LowerOf}

\* the regex class \s
SpaceChars == {" ", "\t", "\n"}

\* the regex assertion \b at position p (between str[p-1] and str[p])
wordBoundary(str, p) ==
   LET before == p > 1 /\ str[p - 1] \in WordChars
       after  == p <= Len(str) /\ str[p] \in WordChars
   IN  before # after

\* new RegExp(`\\b${s}\\b`, "i").test(str), for a lowercase str and keyword
testWord(str, s) ==
   \E i \in 1..(Len(str) - Len(s) + 1) :
      /\ SubSeq(str, i, i + Len(s) - 1) = s
      /\ wordBoundary(str, i)
      /\ wordBoundary(str, i + Len(s))

\* the end of the longest run of characters of class cls starting at p
runEnd(str, p, cls) ==
   CHOOSE q \in p..(Len(str) + 1) :
      /\ \A k \in p..(q - 1) : str[k] \in cls
      /\ q = Len(str) + 1 \/ str[q] \notin cls

\* (?:t1|t2|...)\s*[#:]?\s*(\d+) tried at position i: the capture group,
\* or << >> when the regex does not match there
matchIdAt(str, i, triggers) ==
   LET hits == { j \in 1..Len(triggers) :
                    /\ i + Len(triggers[j]) - 1 <= Len(str)
                    /\ SubSeq(str, i, i + Len(triggers[j]) - 1) = triggers[j] }
       \* the positions after \s*, after [#:]? and after the second \s*
       afterBlanks(j) == { runEnd(str, i + Len(triggers[j]), SpaceChars) }
       afterMark(j)   == { IF p1 <= Len(str) /\ str[p1] \in {"#", ":"}
                           THEN p1 + 1 ELSE p1 : p1 \in afterBlanks(j) }
       beforeDigits(j) == { runEnd(str, p2, SpaceChars) : p2 \in afterMark(j) }
       capture(j) ==
          CHOOSE c \in { SubSeq(str, p3, runEnd(str, p3, Digits) - 1) :
                            p3 \in beforeDigits(j) } : TRUE
       good == { j \in hits : capture(j) # << >> }
   IN  IF good = {} THEN << >>
       ELSE capture(CHOOSE j \in good : \A k \in good : j <= k)

\* str.match(regex)[1]: the capture of the leftmost match, << >> for null
matchId(str, triggers) ==
   LET starts == { i \in 1..Len(str) : matchIdAt(str, i, triggers) # << >> }
   IN  IF starts = {} THEN << >>
       ELSE matchIdAt(str, CHOOSE i \in starts : \A k \in starts : i <= k,
                      triggers)

\* Array.prototype.filter(kw => str.includes(kw))
filterIncluded(table, str) ==
   SelectSeq(table, LAMBDA kw : includes(str, kw))

\* Array.prototype.find(kw => pred(kw)): the first hit, << >> for undefined
findFirst(table, pred(_)) ==
   LET hits == { j \in 1..Len(table) : pred(table[j]) }
   IN  IF hits = {} THEN << >>
       ELSE table[CHOOSE j \in hits : \A k \in hits : j <= k]

(***************************************************************************)
(* JavaScript objects.                                                     *)
(***************************************************************************)
\* the object literal {}
EmptyObject == << >>

\* { ...a, ...b }
spread(a, b) ==
   [k \in (DOMAIN a) \cup (DOMAIN b) |-> IF k \in DOMAIN b THEN b[k] ELSE a[k]]

\* a property that is present (every value the code stores is truthy)
has(obj, key) == key \in DOMAIN obj

(***************************************************************************)
(* Keyword tables.                                                         *)
(***************************************************************************)
\* IntentClassifier.ts: greeting phrases
GREETING_PATTERNS ==
   << <<"h","a","l","o">>,
      <<"h","e","l","l","o">>,
      <<"h","i">>,
      <<"h","e","y">>,
      <<"s","e","l","a","m","a","t"," ","p","a","g","i">>,
      <<"s","e","l","a","m","a","t"," ","s","i","a","n","g">>,
      <<"s","e","l","a","m","a","t"," ","s","o","r","e">>,
      <<"s","e","l","a","m","a","t"," ","m","a","l","a","m">>,
      <<"g","o","o","d"," ","m","o","r","n","i","n","g">>,
      <<"g","o","o","d"," ","a","f","t","e","r","n","o","o","n">>,
      <<"g","o","o","d"," ","e","v","e","n","i","n","g">>,
      <<"a","s","s","a","l","a","m","u","a","l","a","i","k","u","m">>,
      <<"p","e","r","m","i","s","i">>,
      <<"e","x","c","u","s","e"," ","m","e">>,
      <<"h","a","i">>,
      <<"a","p","a"," ","k","a","b","a","r">>,
      <<"h","o","w"," ","a","r","e"," ","y","o","u">> >>

\* EntityExtractor.ts: colour vocabulary
COLOR_KEYWORDS ==
   << <<"m","e","r","a","h">>,
      <<"b","i","r","u">>,
      <<"h","i","j","a","u">>,
      <<"k","u","n","i","n","g">>,
      <<"h","i","t","a","m">>,
      <<"p","u","t","i","h">>,
      <<"a","b","u">>,
      <<"a","b","u","-","a","b","u">>,
      <<"c","o","k","l","a","t">>,
      <<"u","n","g","u">>,
      <<"p","i","n","k">>,
      <<"o","r","e","n">>,
      <<"o","r","a","n","y","e">>,
      <<"e","m","a","s">>,
      <<"s","i","l","v","e","r">>,
      <<"r","e","d">>,
      <<"b","l","u","e">>,
      <<"g","r","e","e","n">>,
      <<"y","e","l","l","o","w">>,
      <<"b","l","a","c","k">>,
      <<"w","h","i","t","e">>,
      <<"g","r","e","y">>,
      <<"g","r","a","y">>,
      <<"b","r","o","w","n">>,
      <<"p","u","r","p","l","e">>,
      <<"p","i","n","k">>,
      <<"o","r","a","n","g","e">>,
      <<"g","o","l","d">>,
      <<"s","i","l","v","e","r">> >>

\* EntityExtractor.ts: size vocabulary
SIZE_KEYWORDS ==
   << <<"s">>,
      <<"m">>,
      <<"l">>,
      <<"x","l">>,
      <<"x","x","l">>,
      <<"x","x","x","l">>,
      <<"a","l","l"," ","s","i","z","e">>,
      <<"a","l","l","-","s","i","z","e">>,
      <<"a","l","l","s","z">>,
      <<"j","u","m","b","o">>,
      <<"s","t","a","n","d","a","r">>,
      <<"s","t","a","n","d","a","r","d">>,
      <<"2","8">>,
      <<"2","9">>,
      <<"3","0">>,
      <<"3","1">>,
      <<"3","2">>,
      <<"3","3">>,
      <<"3","4">>,
      <<"3","5">>,
      <<"3","6">>,
      <<"3","7">>,
      <<"3","8">>,
      <<"3","9">>,
      <<"4","0">>,
      <<"4","1">>,
      <<"4","2">>,
      <<"4","3">>,
      <<"4","4">>,
      <<"4","5">> >>

\* EntityExtractor.ts: product vocabulary
PRODUCT_KEYWORDS ==
   << <<"p","r","o","d","u","k">>,
      <<"b","a","r","a","n","g">>,
      <<"t","w","i","l","l">>,
      <<"m","a","n","o","h","a","r","a">>,
      <<"s","t","a","n","d","a","r","d">>,
      <<"s","t","d">>,
      <<"b","a","h","a","n">>,
      <<"i","t","e","m">>,
      <<"b","a","j","u">>,
      <<"p","a","k","a","i","a","n">>,
      <<"d","r","e","s","s">>,
      <<"k","e","m","e","j","a">>,
      <<"c","e","l","a","n","a">>,
      <<"r","o","k">>,
      <<"j","a","k","e","t">>,
      <<"s","w","e","a","t","e","r">>,
      <<"k","a","o","s">>,
      <<"t","-","s","h","i","r","t">>,
      <<"j","e","a","n","s">>,
      <<"s","e","p","a","t","u">>,
      <<"s","h","o","e","s">>,
      <<"s","a","n","d","a","l">>,
      <<"t","a","s">>,
      <<"b","a","g">>,
      <<"a","k","s","e","s","o","r","i","s">>,
      <<"a","c","c","e","s","s","o","r","i","e","s">>,
      <<"t","o","p","i">>,
      <<"h","a","t">>,
      <<"k","a","c","a","m","a","t","a">>,
      <<"g","l","a","s","s","e","s">>,
      <<"j","a","m"," ","t","a","n","g","a","n">>,
      <<"w","a","t","c","h">>,
      <<"p","e","r","h","i","a","s","a","n">>,
      <<"j","e","w","e","l","r","y">>,
      <<"g","e","l","a","n","g">>,
      <<"b","r","a","c","e","l","e","t">>,
      <<"k","a","l","u","n","g">>,
      <<"n","e","c","k","l","a","c","e">>,
      <<"c","i","n","c","i","n">>,
      <<"r","i","n","g">>,
      <<"a","n","t","i","n","g">>,
      <<"e","a","r","r","i","n","g","s">>,
      <<"s","y","a","l">>,
      <<"s","c","a","r","f">>,
      <<"b","e","l","t">>,
      <<"i","k","a","t"," ","p","i","n","g","g","a","n","g">>,
      <<"d","o","m","p","e","t">>,
      <<"w","a","l","l","e","t">>,
      <<"c","a","r","i">>,
      <<"s","e","a","r","c","h">>,
      <<"f","i","n","d">>,
      <<"t","e","m","u","k","a","n">>,
      <<"r","e","k","o","m","e","n","d","a","s","i">>,
      <<"r","e","c","o","m","m","e","n","d","a","t","i","o","n">> >>

\* EntityExtractor.ts: order vocabulary
ORDER_KEYWORDS ==
   << <<"o","r","d","e","r">>,
      <<"p","e","s","a","n","a","n">>,
      <<"p","e","m","b","e","l","i","a","n">>,
      <<"p","u","r","c","h","a","s","e">>,
      <<"t","r","a","c","k","i","n","g">>,
      <<"l","a","c","a","k">>,
      <<"s","t","a","t","u","s">>,
      <<"p","e","n","g","i","r","i","m","a","n">>,
      <<"d","e","l","i","v","e","r","y">>,
      <<"s","h","i","p","m","e","n","t">>,
      <<"r","e","s","i">>,
      <<"r","e","c","e","i","p","t">>,
      <<"i","n","v","o","i","c","e">>,
      <<"f","a","k","t","u","r">>,
      <<"p","e","m","b","a","y","a","r","a","n">>,
      <<"p","a","y","m","e","n","t">>,
      <<"k","o","n","f","i","r","m","a","s","i">>,
      <<"c","o","n","f","i","r","m","a","t","i","o","n">>,
      <<"r","e","t","u","r","n">>,
      <<"p","e","n","g","e","m","b","a","l","i","a","n">>,
      <<"r","e","f","u","n","d">>,
      <<"c","a","n","c","e","l">>,
      <<"b","a","t","a","l">>,
      <<"c","o","m","p","l","a","i","n">>,
      <<"k","o","m","p","l","a","i","n">>,
      <<"k","e","l","u","h","a","n">>,
      <<"n","o","m","o","r"," ","o","r","d","e","r">>,
      <<"o","r","d","e","r"," ","n","u","m","b","e","r">>,
      <<"i","d"," ","p","e","s","a","n","a","n">>,
      <<"o","r","d","e","r"," ","i","d">>,
      <<"c","e","k"," ","p","e","s","a","n","a","n">>,
      <<"c","h","e","c","k"," ","o","r","d","e","r">> >>

\* EntityExtractor.ts: keyword -> category, in insertion order
CATEGORY_KEYWORDS ==
   << << <<"d","r","e","s","s">>, <<"g","a","m","i","s">> >>,
      << <<"g","a","u","n">>, <<"g","a","m","i","s">> >>,
      << <<"a","t","a","s","a","n">>, <<"s","e","t","e","l","a","n">> >>,
      << <<"b","l","o","u","s","e">>, <<"s","e","t","e","l","a","n">> >>,
      << <<"k","e","m","e","j","a">>, <<"s","h","i","r","t">> >>,
      << <<"b","a","j","u">>, <<"t","o","p","s">> >>,
      << <<"p","a","k","a","i","a","n">>, <<"s","e","t","e","l","a","n">> >>,
      << <<"c","e","l","a","n","a">>, <<"s","e","t","e","l","a","n">> >>,
      << <<"j","e","a","n","s">>, <<"s","e","t","e","l","a","n">> >>,
      << <<"r","o","k">>, <<"s","e","t","e","l","a","n">> >>,
      << <<"j","a","k","e","t">>, <<"s","e","t","e","l","a","n">> >>,
      << <<"s","w","e","a","t","e","r">>, <<"s","e","t","e","l","a","n">> >>,
      << <<"k","a","o","s">>, <<"s","e","t","e","l","a","n">> >>,
      << <<"t","-","s","h","i","r","t">>, <<"s","e","t","e","l","a","n">> >>,
      << <<"d","a","s","t","e","r">>, <<"d","a","s","t","e","r">> >>,
      << <<"g","a","m","i","s">>, <<"g","a","m","i","s">> >>,
      << <<"s","e","t","e","l","a","n">>, <<"s","e","t","e","l","a","n">> >>,
      << <<"s","e","p","a","t","u">>, <<"s","h","o","e","s">> >>,
      << <<"s","h","o","e","s">>, <<"s","h","o","e","s">> >>,
      << <<"s","a","n","d","a","l">>, <<"s","h","o","e","s">> >>,
      << <<"t","a","s">>, <<"b","a","g">> >>,
      << <<"b","a","g">>, <<"b","a","g">> >>,
      << <<"t","o","p","i">>, <<"h","a","t">> >>,
      << <<"h","a","t">>, <<"h","a","t">> >>,
      << <<"d","o","m","p","e","t">>, <<"w","a","l","l","e","t">> >> >>

\* EntityExtractor.ts: membership phrases
USER_STATUS_KEYWORDS ==
   << <<"s","t","a","t","u","s"," ","s","a","y","a">>,
      <<"s","t","a","t","u","s"," ","u","s","e","r">>,
      <<"a","k","u","n"," ","s","a","y","a">>,
      <<"m","e","m","b","e","r","s","h","i","p">>,
      <<"k","e","a","n","g","g","o","t","a","a","n">>,
      <<"u","s","e","r"," ","s","t","a","t","u","s">>,
      <<"m","y"," ","a","c","c","o","u","n","t">>,
      <<"p","r","o","f","i","l"," ","s","a","y","a">> >>

\* EntityExtractor.ts: menu phrases
MENU_KEYWORDS ==
   << <<"m","e","n","u">>,
      <<"f","i","t","u","r">>,
      <<"l","a","y","a","n","a","n">>,
      <<"a","k","s","e","s">>,
      <<"a","p","a"," ","s","a","j","a"," ","y","a","n","g"," ","b","i","s","a">>,
      <<"a","p","a"," ","y","a","n","g"," ","t","e","r","s","e","d","i","a">>,
      <<"w","h","a","t"," ","c","a","n"," ","i"," ","a","c","c","e","s","s">>,
      <<"a","v","a","i","l","a","b","l","e"," ","m","e","n","u">>,
      <<"o","p","t","i","o","n","s">> >>

\* EntityExtractor.ts: FAQ phrases
GENERAL_FAQ_KEYWORDS ==
   << <<"i","n","i"," ","w","e","b"," ","a","p","a">>,
      <<"t","e","n","t","a","n","g">>,
      <<"a","p","a"," ","i","t","u">>,
      <<"s","i","a","p","a">>,
      <<"c","o","m","p","a","n","y">>,
      <<"p","e","r","u","s","a","h","a","a","n">>,
      <<"b","r","a","n","d">>,
      <<"o","f","f","i","c","i","a","l">>,
      <<"r","e","s","m","i">>,
      <<"a","p","a"," ","f","u","n","g","s","i">>,
      <<"a","p","a"," ","g","u","n","a","n","y","a">> >>

\* EntityExtractor.ts: alternation of orderIdRegex
OrderIdTriggers ==
   << <<"o","r","d","e","r">>,
      <<"p","e","s","a","n","a","n">>,
      <<"t","r","a","c","k","i","n","g">>,
      <<"l","a","c","a","k">>,
      <<"s","t","a","t","u","s">>,
      <<"n","o","m","o","r">>,
      <<"n","u","m","b","e","r">>,
      <<"i","d">> >>

\* EntityExtractor.ts: alternation of userIdRegex
UserIdTriggers ==
   << <<"u","s","e","r">>,
      <<"p","e","n","g","g","u","n","a">>,
      <<"m","e","m","b","e","r">>,
      <<"a","n","g","g","o","t","a">>,
      <<"a","k","u","n">>,
      <<"a","c","c","o","u","n","t">> >>

(***************************************************************************)
(* Messages of the model.                                                  *)
(***************************************************************************)
\* "order #4521"
M_order4521 == <<"o","r","d","e","r"," ","#","4","5","2","1">>

\* "saya mau cari dress warna merah ukuran m"
M_dress == <<"s","a","y","a"," ","m","a","u"," ","c","a","r","i"," ","d","r","e","s","s"," ","w","a","r","n","a"," ","m","e","r","a","h"," ","u","k","u","r","a","n"," ","m">>

\* "ya, lanjutkan"
M_lanjut == <<"y","a",","," ","l","a","n","j","u","t","k","a","n">>

\* "halo"
M_halo == <<"h","a","l","o">>

\* "Hi order #4521"
M_HiOrder == <<"H","i"," ","o","r","d","e","r"," ","#","4","5","2","1">>

\* "halo, saya mau tanya status pesanan"
M_haloStatus == <<"h","a","l","o",","," ","s","a","y","a"," ","m","a","u"," ","t","a","n","y","a"," ","s","t","a","t","u","s"," ","p","e","s","a","n","a","n">>

\* "order #42"
M_order42 == <<"o","r","d","e","r"," ","#","4","2">>

\* "warna merah"
M_warna == <<"w","a","r","n","a"," ","m","e","r","a","h">>

\* "cek pesanan saya"
M_cekPesanan == <<"c","e","k"," ","p","e","s","a","n","a","n"," ","s","a","y","a">>

\* "batalkan"
M_batalkan == <<"b","a","t","a","l","k","a","n">>

\* "keanggotaan anggota 7"
M_anggota7 == <<"k","e","a","n","g","g","o","t","a","a","n"," ","a","n","g","g","o","t","a"," ","7">>

\* "keanggotaan"
M_keanggotaan == <<"k","e","a","n","g","g","o","t","a","a","n">>

\* "apa saja menu"
M_menu == <<"a","p","a"," ","s","a","j","a"," ","m","e","n","u">>

\* "ini web apa"
M_faq == <<"i","n","i"," ","w","e","b"," ","a","p","a">>

\* "membership"
M_membership == <<"m","e","m","b","e","r","s","h","i","p">>

\* "android 12"
M_android == <<"a","n","d","r","o","i","d"," ","1","2">>

\* "this thing"
M_thing == <<"t","h","i","s"," ","t","h","i","n","g">>

\* "xl"
M_xl == <<"x","l">>

\* "refund"
M_refund == <<"r","e","f","u","n","d">>

\* "pesanan 30"
M_pesanan30 == <<"p","e","s","a","n","a","n"," ","3","0">>

\* "terima kasih"
M_terima == <<"t","e","r","i","m","a"," ","k","a","s","i","h">>

\* "nomor: 777"
M_nomor == <<"n","o","m","o","r",":"," ","7","7","7">>

\* "HALO"
M_HALO == <<"H","A","L","O">>

\* "Cari Dress"
M_cariDress == <<"C","a","r","i"," ","D","r","e","s","s">>

\* "rindu"
M_rindu == <<"r","i","n","d","u">>

\* "cari produk"
M_cariProduk == <<"c","a","r","i"," ","p","r","o","d","u","k">>

\* "akun 5"
M_akun5 == <<"a","k","u","n"," ","5">>

\* "lacak tas"
M_lacakTas == <<"l","a","c","a","k"," ","t","a","s">>

\* the messages the classifier is applied to
Messages ==
   { M_order4521,
     M_dress,
     M_lanjut,
     M_halo,
     M_HiOrder,
     M_haloStatus,
     M_order42,
     M_warna,
     M_cekPesanan,
     M_batalkan,
     M_anggota7,
     M_keanggotaan,
     M_menu,
     M_faq,
     M_membership,
     M_android,
     M_thing,
     M_xl,
     M_refund,
     M_pesanan30,
     M_terima,
     M_nomor,
     M_HALO,
     M_cariDress,
     M_rindu,
     M_cariProduk,
     M_akun5,
     M_lacakTas }

\* the message bodies sent to the router; << >> is a missing or empty message
RouterMessages ==
   { << >>, M_order4521, M_cariDress, M_warna, M_cekPesanan, M_halo, M_lanjut,
     M_anggota7, M_keanggotaan, M_menu, M_akun5 }

(***************************************************************************)
(* EntityExtractor.extractEntities                                         *)
(***************************************************************************)
extractEntitiesLower(lowercaseMessage) ==
   LET \* each step adds the properties its test yields to the object so far
       catHit   == findFirst(CATEGORY_KEYWORDS,
                             LAMBDA p : includes(lowercaseMessage, p[1]))
       e1 == spread(EmptyObject,
                    IF catHit # << >> THEN "category" :> catHit[2]
                    ELSE EmptyObject)
       \* the default category is tested before product_keywords is assigned
       e2 == spread(e1,
                    IF ~has(e1, "category")
                       /\ (has(e1, "product_keywords") \/ has(e1, "product_name"))
                    THEN "category" :> <<"g","a","m","i","s">>
                    ELSE EmptyObject)
       productMatches == filterIncluded(PRODUCT_KEYWORDS, lowercaseMessage)
       e3 == spread(e2,
                    IF Len(productMatches) > 0
                    THEN ("product_keywords" :> productMatches)
                         @@ ("product_name" :> productMatches[1])
                    ELSE EmptyObject)
       orderMatches == filterIncluded(ORDER_KEYWORDS, lowercaseMessage)
       e4 == spread(e3,
                    IF Len(orderMatches) > 0
                    THEN "order_keywords" :> orderMatches
                    ELSE EmptyObject)
       orderIdMatch == matchId(lowercaseMessage, OrderIdTriggers)
       e5 == spread(e4,
                    IF orderIdMatch # << >> THEN "order_id" :> orderIdMatch
                    ELSE EmptyObject)
       e6 == spread(e5,
                IF includes(lowercaseMessage, <<"c","a","n","c","e","l">>)
                   \/ includes(lowercaseMessage, <<"b","a","t","a","l">>)
                THEN "order_action" :> "cancel"
                ELSE IF includes(lowercaseMessage, <<"r","e","t","u","r","n">>)
                        \/ includes(lowercaseMessage,
                              <<"p","e","n","g","e","m","b","a","l","i","a","n">>)
                THEN "order_action" :> "return"
                ELSE IF includes(lowercaseMessage, <<"r","e","f","u","n","d">>)
                THEN "order_action" :> "refund"
                ELSE EmptyObject)
       colorMatch == findFirst(COLOR_KEYWORDS,
                               LAMBDA c : includes(lowercaseMessage, c))
       e7 == spread(e6,
                    IF colorMatch # << >> THEN "color" :> colorMatch
                    ELSE EmptyObject)
       sizeMatch == findFirst(SIZE_KEYWORDS,
                              LAMBDA z : testWord(lowercaseMessage, z))
       e8 == spread(e7,
                    IF sizeMatch # << >> THEN "size" :> sizeMatch
                    ELSE EmptyObject)
       e9 == spread(e8,
                    IF \E j \in 1..Len(USER_STATUS_KEYWORDS) :
                          includes(lowercaseMessage, USER_STATUS_KEYWORDS[j])
                    THEN "user_status" :> TRUE ELSE EmptyObject)
       userIdMatch == matchId(lowercaseMessage, UserIdTriggers)
       e10 == spread(e9,
                     IF userIdMatch # << >> THEN "user_id" :> userIdMatch
                     ELSE EmptyObject)
       e11 == spread(e10,
                     IF \E j \in 1..Len(MENU_KEYWORDS) :
                           includes(lowercaseMessage, MENU_KEYWORDS[j])
                     THEN "menu_query" :> TRUE ELSE EmptyObject)
       e12 == spread(e11,
                     IF \E j \in 1..Len(GENERAL_FAQ_KEYWORDS) :
                           includes(lowercaseMessage, GENERAL_FAQ_KEYWORDS[j])
                     THEN "general_faq" :> TRUE ELSE EmptyObject)
   IN  e12

\* const lowercaseMessage = message.toLowerCase(), then the steps above
extractEntitiesOf(message) ==
   CHOOSE entities \in { extractEntitiesLower(lowercaseMessage) :
                            lowercaseMessage \in {toLowerCase(message)} } : TRUE

\* extractEntitiesOf on every message of the model, computed once
EntityTable == [m \in Messages |-> extractEntitiesOf(m)]

extractEntities(message) == EntityTable[message]

(***************************************************************************)
(* IntentClassifier                                                        *)
(***************************************************************************)
\* enum Intent
Intent ==
   [ PRODUCT_SEARCH |-> "product_search", ORDER_TRACKING |-> "order_tracking",
     GREETING |-> "greeting", GENERAL_QUERY |-> "general_query",
     FALLBACK |-> "fallback", USER_STATUS |-> "user_status",
     MENU_QUERY |-> "menu_query", ORDER_ACTION |-> "order_action",
     GENERAL_FAQ |-> "general_faq" ]

\* the value null of currentIntent
NULL == "null"

\* the absent optional argument state? of classifyIntent
UNDEFINED == << >>

\* the confidence threshold of shouldUseFallback, 0.4
FallbackThreshold == 40

\* the length limit of the greeting rule
GreetingMaxLength == 20

\* the greeting rule's test (lines 46-47)
greetingRule(lowercaseMessage) ==
   \E j \in 1..Len(GREETING_PATTERNS) :
      /\ includes(lowercaseMessage, GREETING_PATTERNS[j])
      /\ Len(lowercaseMessage) < GreetingMaxLength

\* greetingResult that keeps the extracted entities
greetingResultKeepsEntities(entities) ==
   [ intent |-> Intent.GREETING, confidence |-> 90, entities |-> entities ]

\* the greeting rule's result (lines 48-52)
greetingResult(entities) ==
   [ intent |-> Intent.GREETING, confidence |-> 90, entities |-> EmptyObject ]

\* the product rule's test (lines 57-63)
productRule(entities) ==
   \/ has(entities, "product_keywords")
   \/ has(entities, "product_name")
   \/ has(entities, "color")
   \/ has(entities, "size")
   \/ has(entities, "category")

\* productConfidence that does not look at the evidence
productConfidenceFlat(entities) == 85

\* the product rule's confidence (lines 64-67)
productConfidence(entities) ==
   IF \/ has(entities, "product_name")
      \/ (has(entities, "product_keywords")
          /\ Len(entities.product_keywords) > 0)
   THEN 85 ELSE 70

\* orderRule that asks for an order id
orderRuleByIdOnly(entities) == has(entities, "order_id")

\* the order rule's test (line 77)
orderRule(entities) ==
   has(entities, "order_keywords") \/ has(entities, "order_id")

\* orderConfidence that tests the keywords instead of the order id
orderConfidenceByKeywords(entities) ==
   IF has(entities, "order_keywords") THEN 90 ELSE 75

\* the order rule's confidence (line 78)
orderConfidence(entities) ==
   IF has(entities, "order_id") THEN 90 ELSE 75

\* continuationOrDefault that fills in the entities the state remembers
continuationRemembersEntities(state, entities) ==
   IF state # UNDEFINED /\ state.currentIntent # NULL
   THEN [ intent |-> state.currentIntent, confidence |-> 50,
          entities |-> spread(state.entities, entities) ]
   ELSE [ intent |-> Intent.GENERAL_QUERY, confidence |-> 30,
          entities |-> entities ]

\* continuationOrDefault without the context continuation rule
continuationIgnoresState(state, entities) ==
   [ intent |-> Intent.GENERAL_QUERY, confidence |-> 30, entities |-> entities ]

\* continuationOrDefault that continues only after an answered turn
continuationNeedsTurn(state, entities) ==
   IF state # UNDEFINED /\ state.currentIntent # NULL
      /\ state.context.turnCount > 0
   THEN [ intent |-> state.currentIntent, confidence |-> 50,
          entities |-> entities ]
   ELSE [ intent |-> Intent.GENERAL_QUERY, confidence |-> 30,
          entities |-> entities ]

\* the last two rules: context continuation, then the default (lines 123-137)
continuationOrDefault(state, entities) ==
   IF state # UNDEFINED /\ state.currentIntent # NULL
   THEN [ intent |-> state.currentIntent, confidence |-> 50,
          entities |-> entities ]
   ELSE [ intent |-> Intent.GENERAL_QUERY, confidence |-> 30,
          entities |-> entities ]

\* the rule cascade of classifyIntent (lines 44-137) on the lowercased
\* message and the extracted entities
classifyRules(lowercaseMessage, entities, state) ==
       IF greetingRule(lowercaseMessage)
       THEN greetingResult(entities)
       ELSE IF productRule(entities)
       THEN [ intent |-> Intent.PRODUCT_SEARCH,
              confidence |-> productConfidence(entities),
              entities |-> entities ]
       ELSE IF orderRule(entities)
       THEN [ intent |-> Intent.ORDER_TRACKING,
              confidence |-> orderConfidence(entities),
              entities |-> entities ]
       ELSE IF has(entities, "order_action")
       THEN [ intent |-> Intent.ORDER_ACTION, confidence |-> 85,
              entities |-> entities ]
       ELSE IF has(entities, "user_status")
       THEN [ intent |-> Intent.USER_STATUS, confidence |-> 90,
              entities |-> entities ]
       ELSE IF has(entities, "menu_query")
       THEN [ intent |-> Intent.MENU_QUERY, confidence |-> 90,
              entities |-> entities ]
       ELSE IF has(entities, "general_faq")
       THEN [ intent |-> Intent.GENERAL_FAQ, confidence |-> 85,
              entities |-> entities ]
       ELSE continuationOrDefault(state, entities)

classifyIntent(message, state) ==
   classifyRules(toLowerCase(message), extractEntities(message), state)

\* shouldUseFallback that never trips
shouldUseFallbackNever(classification) == FALSE

\* shouldUseFallback with the threshold at the continuation confidence
shouldUseFallbackAtHalf(classification) == classification.confidence <= 50

shouldUseFallback(classification) ==
   classification.confidence < FallbackThreshold

(***************************************************************************)
(* ConversationState entity                                                *)
(***************************************************************************)
createConversationState(sessionId) ==
   [ sessionId     |-> sessionId,
     currentIntent |-> NULL,
     entities      |-> EmptyObject,
     context       |-> [ lastMessage     |-> << >>,
                         lastResponse    |-> "",
                         previousIntents |-> << >>,
                         turnCount       |-> 0 ],
     confidence    |-> 100 ]

\* updateConversationState with a shallow spread only
updateConversationStateShallow(state, updates) == spread(state, updates)

updateConversationState(state, updates) ==
   spread(spread(state, updates),
          [ context  |-> spread(state.context,
                                IF has(updates, "context")
                                THEN updates.context ELSE EmptyObject),
            entities |-> spread(state.entities,
                                IF has(updates, "entities")
                                THEN updates.entities ELSE EmptyObject) ])

(***************************************************************************)
(* ConversationStateManager: the store is the map conversationStates; each *)
(* function returns the map it leaves behind and its return value.         *)
(***************************************************************************)
\* getConversationState without the test for an existing state
getConversationStateAlwaysCreates(states, sessionId) ==
   LET created == spread(states, sessionId :> createConversationState(sessionId))
   IN  [ states |-> created, result |-> created[sessionId] ]

getConversationState(states, sessionId) ==
   LET created == IF sessionId \in DOMAIN states
                  THEN states
                  ELSE spread(states,
                              sessionId :> createConversationState(sessionId))
   IN  [ states |-> created, result |-> created[sessionId] ]

updateState(states, sessionId, updates) ==
   LET got          == getConversationState(states, sessionId)
       currentState == got.result
       updatedState == updateConversationState(currentState, updates)
   IN  [ states |-> spread(got.states, sessionId :> updatedState),
         result |-> updatedState ]

\* clearConversationState that deletes nothing
clearConversationStateKeeps(states, sessionId) == states

\* clearConversationState that empties the whole store
clearConversationStateAll(states, sessionId) == << >>

clearConversationState(states, sessionId) ==
   [ s \in (DOMAIN states) \ {sessionId} |-> states[s] ]

getAllSessionIds(states) == DOMAIN states

(***************************************************************************)
(* chatController: the dialogue router                                     *)
(***************************************************************************)
VARIABLES
   conversationStates,  \* ConversationStateManager's map: session id -> state
   requests,            \* chat requests suspended at an await: id -> frame
   turns,               \* number of chat requests received so far
   handled,             \* per session id: turns answered with a response
                        \* since the session's state was last created
   storeOps,            \* number of direct calls of the store API so far
   last                 \* the operation that completed last, with its result

vars == << conversationStates, requests, turns, storeOps, handled, last >>

\* session ids a client can send
Sessions == {"s1", "s2"}

\* a request body without sessionId
NoSessionId == ""

\* req.cookies?.aninka_session: absent, or the session cookie
Cookies == {"", "aninka_session"}

\* the fixed replies of getFallbackResponse
fallbackResponses == << "fallback_1", "fallback_2", "fallback_3", "fallback_4" >>

\* the fixed replies of the GREETING case
greetings == << "greeting_1", "greeting_2", "greeting_3" >>

\* getFallbackResponse, with the random index made explicit
getFallbackResponse(i) == fallbackResponses[i]

\* uuidv4(): an id no session and no suspended request uses
uuidv4 ==
   Sessions \ ((DOMAIN conversationStates)
               \cup { requests[r].sessionId : r \in DOMAIN requests })

\* turnContextUpdate that counts the turn without appending its intent
turnContextUpdateKeepsIntents(conversationState, classification, message, responseText) ==
   [ context |->
       [ lastMessage     |-> message,
         lastResponse    |-> responseText,
         turnCount       |-> conversationState.context.turnCount + 1,
         previousIntents |-> conversationState.context.previousIntents ] ]

\* the context update that ends a turn (lines 53-63 and 211-221)
turnContextUpdate(conversationState, classification, message, responseText) ==
   [ context |->
       [ lastMessage     |-> message,
         lastResponse    |-> responseText,
         turnCount       |-> conversationState.context.turnCount + 1,
         previousIntents |-> Append(conversationState.context.previousIntents,
                                    classification.intent) ] ]

\* const productQuery (lines 78-80); << >> is the empty string
productQueryOf(classification) ==
   IF has(classification.entities, "product_name")
   THEN classification.entities.product_name
   ELSE IF has(classification.entities, "product_keywords")
           /\ Len(classification.entities.product_keywords) > 0
   THEN classification.entities.product_keywords[1]
   ELSE << >>

\* const orderId (line 135); << >> is undefined
orderIdOf(classification) ==
   IF has(classification.entities, "order_id")
   THEN classification.entities.order_id
   ELSE << >>

\* const userId (line 188); << >> is undefined
userIdOf(classification) ==
   IF has(classification.entities, "user_id")
   THEN classification.entities.user_id
   ELSE << >>

\* contextPromptOf that tests turnCount >= 0
contextPromptOfAnyTurn(state) ==
   IF state.context.turnCount >= 0
   THEN [ present      |-> TRUE,
          lastMessage  |-> state.context.lastMessage,
          lastResponse |-> state.context.lastResponse ]
   ELSE [ present |-> FALSE ]

\* contextPrompt of getGroqResponse (lines 246-249)
contextPromptOf(state) ==
   IF state.context.turnCount > 0
   THEN [ present      |-> TRUE,
          lastMessage  |-> state.context.lastMessage,
          lastResponse |-> state.context.lastResponse ]
   ELSE [ present |-> FALSE ]

\* the frames of requests other than req
otherRequests(req) ==
   [ r \in (DOMAIN requests) \ {req.id} |-> requests[r] ]

\* the request ends: res.json(...) or res.status(...).json(...)
respond(req, states, status, responseText) ==
   /\ conversationStates' = states
   /\ requests' = otherRequests(req)
   /\ handled' = IF status = 200
                 THEN [handled EXCEPT ![req.sessionId] = @ + 1]
                 ELSE handled
   /\ last' = [ op             |-> "chat",
                status         |-> status,
                sessionId      |-> req.sessionId,
                message        |-> req.message,
                response       |-> responseText,
                classification |-> req.classification,
                laravelCookie  |-> req.laravelCookie,
                calls          |-> req.calls,
                results        |-> req.results ]

\* the awaited call of a suspended request settles with an outcome
returned(req, outcome) == [req EXCEPT !.results = Append(@, outcome)]

\* the request suspends at "await call(...)"
await(req, states, call) ==
   /\ conversationStates' = states
   /\ requests' = spread(requests,
                         req.id :> [req EXCEPT !.pc = call,
                                               !.calls = Append(@, call)])
   /\ UNCHANGED << handled, last >>

\* finish whose final update stores the turn context in place of the stored
\* context instead of merging into it
finishReplacesContext(req, states, responseText) ==
   respond(req,
           spread(states,
                  req.sessionId :>
                     [ getConversationState(states, req.sessionId).result
                          EXCEPT !.context =
                             turnContextUpdate(req.conversationState,
                                               req.classification,
                                               req.message,
                                               responseText).context ]),
           200, responseText)

\* lines 210-227: the final context update and the response
finish(req, states, responseText) ==
   respond(req,
           updateState(states, req.sessionId,
                       turnContextUpdate(req.conversationState,
                                         req.classification,
                                         req.message, responseText)).states,
           200, responseText)

\* finishProduct with the final update computed from the state the product
\* update returned instead of the state read at line 36
finishProductRereads(req, responseText) ==
   LET upd == updateState(conversationStates, req.sessionId,
                 [ context |->
                     spread(turnContextUpdate(req.conversationState,
                                              req.classification,
                                              req.message, responseText).context,
                            "lastProductSearch" :>
                                productQueryOf(req.classification)) ])
   IN  respond(req,
               updateState(upd.states, req.sessionId,
                           turnContextUpdate(upd.result, req.classification,
                                             req.message, responseText)).states,
               200, responseText)

\* lines 114-126: the product branch records the search, then falls to 210
finishProduct(req, responseText) ==
   finish(req,
          updateState(conversationStates, req.sessionId,
             [ context |->
                 spread(turnContextUpdate(req.conversationState,
                                          req.classification,
                                          req.message, responseText).context,
                        "lastProductSearch" :>
                            productQueryOf(req.classification)) ]).states,
          responseText)

\* lines 157-169: the order branch records the order id, then falls to 210
finishOrder(req, responseText) ==
   finish(req,
          updateState(conversationStates, req.sessionId,
             [ context |->
                 spread(turnContextUpdate(req.conversationState,
                                          req.classification,
                                          req.message, responseText).context,
                        "lastOrderId" :> orderIdOf(req.classification)) ]).states,
          responseText)

\* dispatch whose USER_STATUS case does not test the cookie
dispatchIgnoresCookie(req, states, laravelCookie) ==
   CASE req.classification.intent = Intent.PRODUCT_SEARCH ->
           IF productQueryOf(req.classification) # << >>
           THEN await(req, states, "searchProductsExternal")
           ELSE await(req, states, "getGroqResponse")
     [] req.classification.intent = Intent.ORDER_TRACKING ->
           IF orderIdOf(req.classification) # << >>
           THEN await(req, states, "getOrderByIdExternal")
           ELSE await(req, states, "getGroqResponse")
     [] req.classification.intent = Intent.GREETING ->
           \E i \in 1..Len(greetings) : finish(req, states, greetings[i])
     [] req.classification.intent = Intent.USER_STATUS ->
           IF userIdOf(req.classification) # << >>
           THEN await(req, states, "getUserStatusExternal")
           ELSE finish(req, states, "please_login")
     [] OTHER -> await(req, states, "getGroqResponse")

\* lines 74-208: the switch on classification.intent, up to its first await
dispatch(req, states, laravelCookie) ==
   CASE req.classification.intent = Intent.PRODUCT_SEARCH ->
           IF productQueryOf(req.classification) # << >>
           THEN await(req, states, "searchProductsExternal")
           ELSE await(req, states, "getGroqResponse")
     [] req.classification.intent = Intent.ORDER_TRACKING ->
           IF orderIdOf(req.classification) # << >>
           THEN await(req, states, "getOrderByIdExternal")
           ELSE await(req, states, "getGroqResponse")
     [] req.classification.intent = Intent.GREETING ->
           \E i \in 1..Len(greetings) : finish(req, states, greetings[i])
     [] req.classification.intent = Intent.USER_STATUS ->
           IF userIdOf(req.classification) # << >> /\ laravelCookie # ""
           THEN await(req, states, "getUserStatusExternal")
           ELSE finish(req, states, "please_login")
     [] OTHER -> await(req, states, "getGroqResponse")

\* lines 42-69 and the synchronous part of the switch, for the state read at
\* line 36 and the classification of line 39
chatClassified(sessionId, message, laravelCookie, states, conversationState, classification) ==
   LET updatedState ==
          updateState(states, sessionId,
             [ currentIntent |-> classification.intent,
               confidence    |-> classification.confidence,
               entities      |-> classification.entities ])
       req == [ id                |-> turns + 1,
                sessionId         |-> sessionId,
                message           |-> message,
                conversationState |-> conversationState,
                classification    |-> classification,
                laravelCookie     |-> laravelCookie,
                contextPrompt     |-> contextPromptOf(conversationState),
                calls             |-> << >>,
                results           |-> << >>,
                pc                |-> "chat" ]
   IN  IF shouldUseFallback(classification)
       THEN \E i \in 1..Len(fallbackResponses) :
               finish(req, updatedState.states, getFallbackResponse(i))
       ELSE dispatch(req, updatedState.states, laravelCookie)

\* chat that gets or creates the session's state before it validates the
\* message
chatCreatesStateFirst(clientSessionId, message, laravelCookie) ==
   /\ turns < MaxTurns
   /\ turns' = turns + 1
   /\ UNCHANGED storeOps
   /\ \E sessionId \in (IF clientSessionId # NoSessionId
                         THEN {clientSessionId} ELSE uuidv4) :
         \E got \in {getConversationState(conversationStates, sessionId)} :
            IF message = << >>
            THEN /\ last' = [ op |-> "chat", status |-> 400,
                              sessionId |-> clientSessionId,
                              message |-> message ]
                 /\ conversationStates' = got.states
                 /\ UNCHANGED << requests, handled >>
            ELSE chatClassified(sessionId, message, laravelCookie,
                                got.states, got.result,
                                classifyIntent(message, got.result))

\* lines 23-39: validation, session id, state and classification
chat(clientSessionId, message, laravelCookie) ==
   /\ turns < MaxTurns
   /\ turns' = turns + 1
   /\ UNCHANGED storeOps
   /\ IF message = << >>
      THEN /\ last' = [ op |-> "chat", status |-> 400,
                        sessionId |-> clientSessionId, message |-> message ]
           /\ UNCHANGED << conversationStates, requests, handled >>
      ELSE \E sessionId \in (IF clientSessionId # NoSessionId
                             THEN {clientSessionId} ELSE uuidv4) :
              \E got \in {getConversationState(conversationStates, sessionId)} :
                 chatClassified(sessionId, message, laravelCookie,
                                got.states, got.result,
                                classifyIntent(message, got.result))

\* searchProductsExternalReturns without the try/catch of lines 83-112
searchProductsExternalUncaught(r, outcome) ==
   /\ r \in DOMAIN requests
   /\ requests[r].pc = "searchProductsExternal"
   /\ CASE outcome = "items" ->
             finishProduct(returned(requests[r], outcome), "external_products")
        [] outcome = "empty" ->
             await(returned(requests[r], outcome), conversationStates,
                   "searchProducts")
        [] OTHER ->
             respond(returned(requests[r], outcome), conversationStates, 500,
                     "An error occurred")
   /\ UNCHANGED << turns, storeOps >>

\* searchProductsExternalReturns that searches the local catalogue as well
\* whatever the external search returned
searchProductsExternalAlsoLocal(r, outcome) ==
   /\ r \in DOMAIN requests
   /\ requests[r].pc = "searchProductsExternal"
   /\ await(returned(requests[r], outcome), conversationStates,
            "searchProducts")
   /\ UNCHANGED << turns, storeOps >>

\* "await searchProductsExternal(...)" resumes (lines 89-112)
searchProductsExternalReturns(r, outcome) ==
   /\ r \in DOMAIN requests
   /\ requests[r].pc = "searchProductsExternal"
   /\ IF outcome = "items"
      THEN finishProduct(returned(requests[r], outcome), "external_products")
      ELSE await(returned(requests[r], outcome), conversationStates,
                 "searchProducts")
   /\ UNCHANGED << turns, storeOps >>

\* "await searchProducts(productQuery)" resumes (lines 104-105, 110-111)
searchProductsReturns(r) ==
   /\ r \in DOMAIN requests
   /\ requests[r].pc = "searchProducts"
   /\ finishProduct(returned(requests[r], "products"), "local_products")
   /\ UNCHANGED << turns, storeOps >>

\* "await getOrderByIdExternal(...)" resumes (lines 140-155)
getOrderByIdExternalReturns(r, outcome) ==
   /\ r \in DOMAIN requests
   /\ requests[r].pc = "getOrderByIdExternal"
   /\ IF outcome = "order"
      THEN finishOrder(returned(requests[r], outcome), "external_order")
      ELSE await(returned(requests[r], outcome), conversationStates,
                 "getOrderById")
   /\ UNCHANGED << turns, storeOps >>

\* "await getOrderById(orderId)" resumes (lines 147-148, 153-154)
getOrderByIdReturns(r) ==
   /\ r \in DOMAIN requests
   /\ requests[r].pc = "getOrderById"
   /\ finishOrder(returned(requests[r], "order"), "local_order")
   /\ UNCHANGED << turns, storeOps >>

\* getUserStatusExternalReturns without the try/catch of lines 191-198
getUserStatusExternalUncaught(r, outcome) ==
   /\ r \in DOMAIN requests
   /\ requests[r].pc = "getUserStatusExternal"
   /\ IF outcome = "throw"
      THEN respond(returned(requests[r], outcome), conversationStates, 500,
                   "An error occurred")
      ELSE finish(returned(requests[r], outcome), conversationStates,
                  IF outcome = "user" THEN "user_status" ELSE "user_not_found")
   /\ UNCHANGED << turns, storeOps >>

\* "await getUserStatusExternal(...)" resumes (lines 193-198)
getUserStatusExternalReturns(r, outcome) ==
   /\ r \in DOMAIN requests
   /\ requests[r].pc = "getUserStatusExternal"
   /\ finish(returned(requests[r], outcome), conversationStates,
             CASE outcome = "user" -> "user_status"
               [] outcome = "null" -> "user_not_found"
               [] OTHER            -> "user_status_unavailable")
   /\ UNCHANGED << turns, storeOps >>

\* getGroqResponseReturns that records the product search of the turn
getGroqResponseRecordsSearch(r, outcome) ==
   /\ r \in DOMAIN requests
   /\ requests[r].pc = "getGroqResponse"
   /\ CASE outcome = "content" ->
             finishProduct(returned(requests[r], outcome), "groq_content")
        [] outcome = "empty" ->
             finishProduct(returned(requests[r], outcome), "")
        [] OTHER ->
             respond(returned(requests[r], outcome), conversationStates, 500,
                     "An error occurred")
   /\ UNCHANGED << turns, storeOps >>

\* getGroqResponseReturns that answers a failure with a fixed reply
getGroqResponseSubstitutes(r, outcome) ==
   /\ r \in DOMAIN requests
   /\ requests[r].pc = "getGroqResponse"
   /\ finish(returned(requests[r], outcome), conversationStates,
             CASE outcome = "content" -> "groq_content"
               [] outcome = "empty"   -> ""
               [] OTHER               -> getFallbackResponse(1))
   /\ UNCHANGED << turns, storeOps >>

\* getGroqResponseReturns whose failure path puts back the state read at the
\* start of the turn
getGroqResponseRollsBack(r, outcome) ==
   /\ r \in DOMAIN requests
   /\ requests[r].pc = "getGroqResponse"
   /\ CASE outcome = "content" ->
             finish(returned(requests[r], outcome), conversationStates,
                    "groq_content")
        [] outcome = "empty" ->
             finish(returned(requests[r], outcome), conversationStates, "")
        [] OTHER ->
             respond(returned(requests[r], outcome),
                     spread(conversationStates,
                            requests[r].sessionId :>
                               requests[r].conversationState),
                     500, "An error occurred")
   /\ UNCHANGED << turns, storeOps >>

\* "await getGroqResponse(...)" resumes (lines 129, 172, 206, 228-234, 251-286)
getGroqResponseReturns(r, outcome) ==
   /\ r \in DOMAIN requests
   /\ requests[r].pc = "getGroqResponse"
   /\ CASE outcome = "content" ->
             finish(returned(requests[r], outcome), conversationStates,
                    "groq_content")
        [] outcome = "empty" ->
             finish(returned(requests[r], outcome), conversationStates, "")
        [] OTHER ->
             respond(returned(requests[r], outcome), conversationStates, 500,
                     "An error occurred")
   /\ UNCHANGED << turns, storeOps >>

(***************************************************************************)
(* The store API called directly, and the classifier called directly.      *)
(***************************************************************************)
\* partial states passed to updateState
Partials ==
   { EmptyObject,
     [ context |-> [ lastMessage |-> <<"x">> ] ],
     [ context |-> [ lastOrderId |-> <<"4","5","2","1">> ] ],
     [ context |-> [ lastProductSearch |-> <<"d","r","e","s","s">> ] ],
     [ context |-> [ lastMessage     |-> <<"h","a","l","o">>,
                     lastResponse    |-> "greeting_1",
                     turnCount       |-> 1,
                     previousIntents |-> << Intent.GREETING >> ] ],
     [ currentIntent |-> Intent.ORDER_TRACKING, confidence |-> 90,
       entities |-> [ order_id |-> <<"4","5","2","1">> ] ],
     [ entities |-> [ color |-> <<"m","e","r","a","h">> ] ],
     [ confidence |-> 50 ] }

\* states passed to classifyIntent: none, a fresh one, one after a turn
PriorStates ==
   { UNDEFINED }
   \cup { [ createConversationState("s1") EXCEPT !.currentIntent = i ] :
             i \in {NULL} \cup { Intent[k] : k \in DOMAIN Intent } }
   \cup { updateConversationState(
             [ createConversationState("s1") EXCEPT !.currentIntent = i ],
             [ confidence |-> 90,
               entities   |-> [ order_id |-> <<"4","5","2","1">> ],
               context    |-> [ turnCount |-> 1,
                                previousIntents |-> << i >> ] ]) :
             i \in { Intent[k] : k \in DOMAIN Intent } }

GetConversationState(sessionId) ==
   LET got == getConversationState(conversationStates, sessionId)
   IN  /\ storeOps < MaxStoreOps
       /\ storeOps' = storeOps + 1
       /\ conversationStates' = got.states
       /\ last' = [ op        |-> "getConversationState",
                    sessionId |-> sessionId,
                    result    |-> got.result ]
       /\ UNCHANGED << requests, turns, handled >>

UpdateState(sessionId, updates) ==
   LET upd == updateState(conversationStates, sessionId, updates)
   IN  /\ storeOps < MaxStoreOps
       /\ storeOps' = storeOps + 1
       /\ conversationStates' = upd.states
       /\ last' = [ op        |-> "updateState",
                    sessionId |-> sessionId,
                    updates   |-> updates,
                    before    |-> getConversationState(conversationStates,
                                                       sessionId).result,
                    result    |-> upd.result ]
       /\ UNCHANGED << requests, turns, handled >>

ClearConversationState(sessionId) ==
   /\ conversationStates' = clearConversationState(conversationStates, sessionId)
   /\ handled' = [handled EXCEPT ![sessionId] = 0]
   /\ last' = [ op        |-> "clearConversationState",
                sessionId |-> sessionId,
                before    |-> IF sessionId \in DOMAIN conversationStates
                              THEN conversationStates[sessionId]
                              ELSE UNDEFINED ]
   /\ UNCHANGED << requests, turns, storeOps >>

ClassifyIntent(message, state) ==
   /\ last' = [ op      |-> "classifyIntent",
                message |-> message,
                state   |-> state,
                result  |-> classifyIntent(message, state) ]
   /\ UNCHANGED << conversationStates, requests, turns, handled, storeOps >>

(***************************************************************************)
(* Specifications                                                          *)
(***************************************************************************)
Init ==
   /\ conversationStates = << >>
   /\ requests = << >>
   /\ turns = 0
   /\ storeOps = 0
   /\ handled = [s \in Sessions |-> 0]
   /\ last = [ op |-> "none" ]

\* no request of the session is suspended at an await
idle(sessionId) ==
   \A r \in DOMAIN requests : requests[r].sessionId # sessionId

\* a chat request that arrives when the session's previous turn has ended
SeqChat(clientSessionId, message, laravelCookie) ==
   /\ clientSessionId = NoSessionId \/ idle(clientSessionId)
   /\ chat(clientSessionId, message, laravelCookie)

\* a clear between two turns
SeqClear(sessionId) ==
   /\ idle(sessionId)
   /\ ClearConversationState(sessionId)

\* the router with the turns of one session handled one after another
NextSeq ==
   \/ \E c \in Sessions \cup {NoSessionId}, m \in RouterMessages, k \in Cookies :
         SeqChat(c, m, k)
   \/ \E r \in DOMAIN requests, o \in {"items", "empty", "throw"} :
         searchProductsExternalReturns(r, o)
   \/ \E r \in DOMAIN requests : searchProductsReturns(r)
   \/ \E r \in DOMAIN requests, o \in {"order", "null", "throw"} :
         getOrderByIdExternalReturns(r, o)
   \/ \E r \in DOMAIN requests : getOrderByIdReturns(r)
   \/ \E r \in DOMAIN requests, o \in {"user", "null", "throw"} :
         getUserStatusExternalReturns(r, o)
   \/ \E r \in DOMAIN requests, o \in {"content", "empty", "throw"} :
         getGroqResponseReturns(r, o)
   \/ \E s \in Sessions : SeqClear(s)

SpecSeq == Init /\ [][NextSeq]_vars

\* the router on the event loop: requests interleave at their awaits
NextLoop ==
   \/ \E c \in Sessions \cup {NoSessionId}, m \in RouterMessages, k \in Cookies :
         chat(c, m, k)
   \/ \E r \in DOMAIN requests, o \in {"items", "empty", "throw"} :
         searchProductsExternalReturns(r, o)
   \/ \E r \in DOMAIN requests : searchProductsReturns(r)
   \/ \E r \in DOMAIN requests, o \in {"order", "null", "throw"} :
         getOrderByIdExternalReturns(r, o)
   \/ \E r \in DOMAIN requests : getOrderByIdReturns(r)
   \/ \E r \in DOMAIN requests, o \in {"user", "null", "throw"} :
         getUserStatusExternalReturns(r, o)
   \/ \E r \in DOMAIN requests, o \in {"content", "empty", "throw"} :
         getGroqResponseReturns(r, o)

SpecLoop == Init /\ [][NextLoop]_vars

\* the store API
NextStore ==
   \/ \E s \in Sessions : GetConversationState(s)
   \/ \E s \in Sessions, p \in Partials : UpdateState(s, p)
   \/ \E s \in Sessions : storeOps < MaxStoreOps /\ ClearConversationState(s)

SpecStore == Init /\ [][NextStore]_vars

\* the classifier
NextClassify ==
   \E m \in Messages, s \in PriorStates : ClassifyIntent(m, s)

SpecClassify == Init /\ [][NextClassify]_vars

\* everything: the router on the event loop, with sessions cleared at any time
Next ==
   \/ \E c \in Sessions \cup {NoSessionId}, m \in RouterMessages, k \in Cookies :
         chat(c, m, k)
   \/ \E r \in DOMAIN requests, o \in {"items", "empty", "throw"} :
         searchProductsExternalReturns(r, o)
   \/ \E r \in DOMAIN requests : searchProductsReturns(r)
   \/ \E r \in DOMAIN requests, o \in {"order", "null", "throw"} :
         getOrderByIdExternalReturns(r, o)
   \/ \E r \in DOMAIN requests : getOrderByIdReturns(r)
   \/ \E r \in DOMAIN requests, o \in {"user", "null", "throw"} :
         getUserStatusExternalReturns(r, o)
   \/ \E r \in DOMAIN requests, o \in {"content", "empty", "throw"} :
         getGroqResponseReturns(r, o)
   \/ \E s \in Sessions : ClearConversationState(s)

Spec == Init /\ [][Next]_vars


(***************************************************************************)
(* Properties                                                              *)
(***************************************************************************)
\* the elements of a sequence
Range(seq) == { seq[i] : i \in 1..Len(seq) }

\* the message, lowercased, contains a greeting phrase and is shorter than 20
SaysGreeting(message) ==
   /\ Len(toLowerCase(message)) < 20
   /\ \E g \in Range(GREETING_PATTERNS) : includes(toLowerCase(message), g)

\* product evidence among extracted entities
ProductEvidence(e) ==
   DOMAIN e \cap {"product_keywords", "product_name", "color", "size",
                  "category"} # {}

\* the entity keys a rule of the cascade tests
RuleKeys ==
   { "product_keywords", "product_name", "color", "size", "category",
     "order_keywords", "order_id", "order_action", "user_status",
     "menu_query", "general_faq" }

\* no rule above the context continuation matches the message
NoRuleMatches(message) ==
   /\ ~SaysGreeting(message)
   /\ DOMAIN extractEntities(message) \cap RuleKeys = {}

\* a trigger word, optional blanks, an optional # or :, optional blanks, a digit
OrderReferenceIn(lowercaseMessage) ==
   \E t \in Range(OrderIdTriggers),
      a \in {<< >>, <<" ">>, <<" ", " ">>},
      b \in {<< >>, <<"#">>, <<":">>},
      c \in {<< >>, <<" ">>, <<" ", " ">>},
      d \in Digits :
         includes(lowercaseMessage, t \o a \o b \o c \o <<d>>)

\* a fresh initial state, field by field
IsFresh(state) ==
   /\ state.currentIntent = NULL
   /\ state.confidence = 100
   /\ state.entities = EmptyObject
   /\ state.context.turnCount = 0
   /\ state.context.previousIntents = << >>
   /\ ~has(state.context, "lastOrderId")
   /\ ~has(state.context, "lastProductSearch")

\* C1: with the turns of a session handled one after another, the stored
\* turnCount of every session equals the number of turns answered with a
\* response since the session's state was created, whatever path they took.
C1_TurnCountIsHandledTurns ==
   \A s \in Sessions :
      IF s \in DOMAIN conversationStates
      THEN conversationStates[s].context.turnCount = handled[s]
      ELSE handled[s] = 0

\* a second turn, on the product path with its two context updates, answered
C1_Witness ==
   /\ last.op = "chat"
   /\ last.status = 200
   /\ last.calls # << >>
   /\ last.calls[1] = "searchProductsExternal"
   /\ handled[last.sessionId] = 2
   /\ last.sessionId \in DOMAIN conversationStates
   /\ conversationStates[last.sessionId].context.turnCount = 2

\* C2: with requests interleaving at their awaits no update is lost: once
\* no request of a session is suspended, its turnCount and the length of its
\* previousIntents equal the number of turns answered.
C2_NoUpdateIsLost ==
   \A s \in DOMAIN conversationStates :
      idle(s) =>
         /\ conversationStates[s].context.turnCount = handled[s]
         /\ Len(conversationStates[s].context.previousIntents) = handled[s]

\* C3: updateState keeps every top-level field, every context key and every
\* entities key that the partial does not mention, and stores the result.
C3_UpdateKeepsUnmentioned ==
   last.op = "updateState" =>
      LET b  == last.before
          a  == last.result
          p  == last.updates
          pc == IF has(p, "context") THEN p.context ELSE EmptyObject
          pe == IF has(p, "entities") THEN p.entities ELSE EmptyObject
      IN  /\ \A k \in (DOMAIN b) \ ((DOMAIN p) \cup {"context", "entities"}) :
                has(a, k) /\ a[k] = b[k]
          /\ \A k \in (DOMAIN b.context) \ (DOMAIN pc) :
                has(a.context, k) /\ a.context[k] = b.context[k]
          /\ \A k \in (DOMAIN b.entities) \ (DOMAIN pe) :
                has(a.entities, k) /\ a.entities[k] = b.entities[k]
          /\ conversationStates[last.sessionId] = a

\* {context: {lastMessage: "x"}} applied to a state holding lastOrderId and
\* lastProductSearch
C3_Witness ==
   /\ last.op = "updateState"
   /\ last.updates = [ context |-> [ lastMessage |-> <<"x">> ] ]
   /\ has(last.before.context, "lastOrderId")
   /\ has(last.before.context, "lastProductSearch")
   /\ last.result.context.lastMessage = <<"x">>

\* C4: getConversationState on an unseen id creates and stores a fresh state
\* (turnCount 0, no previous intents, confidence 1.0, no current intent, no
\* entities) and touches no other session; on a known id it changes nothing
\* and returns the stored state, which is what the last update returned.
C4_GetOrCreate ==
   [][ (storeOps' # storeOps /\ last'.op = "getConversationState") =>
          LET s == last'.sessionId
          IN  IF s \notin DOMAIN conversationStates
              THEN /\ IsFresh(last'.result)
                   /\ last'.result.sessionId = s
                   /\ DOMAIN conversationStates' = DOMAIN conversationStates \cup {s}
                   /\ conversationStates'[s] = last'.result
                   /\ \A o \in DOMAIN conversationStates :
                         conversationStates'[o] = conversationStates[o]
              ELSE /\ conversationStates' = conversationStates
                   /\ last'.result = conversationStates[s]
                   /\ (last.op = "updateState" /\ last.sessionId = s)
                         => last'.result = last.result
     ]_vars

\* getConversationState on a known id that two updates have changed
C4_Witness ==
   /\ last.op = "getConversationState"
   /\ last.result.context.turnCount = 1
   /\ has(last.result.context, "lastOrderId")

\* C5: after clearConversationState the session id is not among
\* getAllSessionIds, and a getConversationState of that id that follows
\* returns and stores a fresh state, whatever the session held.
C5_ClearStartsFresh ==
   [][ /\ last'.op = "clearConversationState"
          => last'.sessionId \notin getAllSessionIds(conversationStates')
       /\ ( /\ last.op = "clearConversationState"
            /\ storeOps' # storeOps
            /\ last'.op = "getConversationState"
            /\ last'.sessionId = last.sessionId )
          => /\ IsFresh(last'.result)
             /\ conversationStates'[last.sessionId] = last'.result
     ]_vars

\* a clear of a session that held a turn count and an order id
C5_Witness ==
   /\ last.op = "clearConversationState"
   /\ last.before # UNDEFINED
   /\ last.before.context.turnCount = 1
   /\ has(last.before.context, "lastOrderId")
   /\ last.sessionId \notin DOMAIN conversationStates

\* C6: the fallback gate trips exactly for GENERAL_QUERY at 0.3, which is
\* returned exactly when no rule matches and there is no prior intent; every
\* other result has confidence at least 0.5.
C6_FallbackOnlyForDefault ==
   last.op = "classifyIntent" =>
      LET c         == last.result
          isDefault == c.intent = Intent.GENERAL_QUERY /\ c.confidence = 30
          noPrior   == last.state = UNDEFINED \/ last.state.currentIntent = NULL
      IN  /\ shouldUseFallback(c) <=> isDefault
          /\ isDefault <=> (NoRuleMatches(last.message) /\ noPrior)
          /\ ~isDefault => c.confidence >= 50

\* "ya, lanjutkan" classified with no prior intent: the gate trips
C6_Witness ==
   /\ last.op = "classifyIntent"
   /\ last.message = M_lanjut
   /\ last.state # UNDEFINED
   /\ shouldUseFallback(last.result)
   /\ last.result.intent = Intent.GENERAL_QUERY

\* C7: a turn whose message matches no rule, in a session whose stored
\* currentIntent is X, is classified X at 0.5 with the entities extracted
\* from this message, and is dispatched: it suspends at an action or answers
\* with something other than a fallback reply.
C7_ContextContinuation ==
   [][ ( /\ turns' = turns + 1
         /\ (turns + 1) \in DOMAIN requests' \/ last'.status = 200 ) =>
          LET suspended == (turns + 1) \in DOMAIN requests'
              t == IF suspended THEN requests'[turns + 1] ELSE last'
          IN  ( /\ t.sessionId \in DOMAIN conversationStates
                /\ conversationStates[t.sessionId].currentIntent # NULL
                /\ NoRuleMatches(t.message) )
              => /\ t.classification.intent =
                       conversationStates[t.sessionId].currentIntent
                 /\ t.classification.confidence = 50
                 /\ t.classification.entities = extractEntities(t.message)
                 /\ suspended \/ last'.response \notin Range(fallbackResponses)
     ]_vars

\* "ya, lanjutkan" after an order turn: ORDER_TRACKING at 0.5, sent to the
\* general responder
C7_Witness ==
   \E r \in DOMAIN requests :
      /\ requests[r].message = M_lanjut
      /\ requests[r].conversationState.currentIntent = Intent.ORDER_TRACKING
      /\ requests[r].classification.intent = Intent.ORDER_TRACKING
      /\ requests[r].classification.confidence = 50
      /\ requests[r].pc = "getGroqResponse"

\* C8: a message that contains a greeting phrase and is shorter than 20
\* characters is classified GREETING at 0.9 with no entities, whatever else
\* it contains and whatever the prior state.
C8_GreetingFirst ==
   (last.op = "classifyIntent" /\ SaysGreeting(last.message)) =>
      /\ last.result.intent = Intent.GREETING
      /\ last.result.confidence = 90
      /\ last.result.entities = EmptyObject

\* "Hi order #4521" in a session tracking an order
C8_Witness ==
   /\ last.op = "classifyIntent"
   /\ last.message = M_HiOrder
   /\ has(extractEntities(last.message), "order_id")
   /\ last.state # UNDEFINED
   /\ last.state.currentIntent = Intent.ORDER_TRACKING
   /\ last.result.intent = Intent.GREETING

\* C9: without a greeting, any product evidence gives PRODUCT_SEARCH, at 0.85
\* with a product name or keyword list and at 0.7 otherwise, whatever order,
\* status, menu or FAQ evidence there is; the example message gives 0.85 with
\* color merah, size m and category gamis.
C9_ProductSecond ==
   last.op = "classifyIntent" =>
      LET e == extractEntities(last.message)
          c == last.result
      IN  /\ (~SaysGreeting(last.message) /\ ProductEvidence(e)) =>
                /\ c.intent = Intent.PRODUCT_SEARCH
                /\ c.confidence =
                      IF has(e, "product_name") \/ has(e, "product_keywords")
                      THEN 85 ELSE 70
                /\ c.entities = e
          /\ last.message = M_dress =>
                /\ c.intent = Intent.PRODUCT_SEARCH
                /\ c.confidence = 85
                /\ <<"d","r","e","s","s">> \in Range(c.entities.product_keywords)
                /\ c.entities.color = <<"m","e","r","a","h">>
                /\ c.entities.size = <<"m">>
                /\ c.entities.category = <<"g","a","m","i","s">>

\* "order #42": an order reference whose digits are also a size
C9_Witness ==
   /\ last.op = "classifyIntent"
   /\ last.message = M_order42
   /\ has(last.result.entities, "order_id")
   /\ ~has(last.result.entities, "product_name")
   /\ last.result.intent = Intent.PRODUCT_SEARCH
   /\ last.result.confidence = 70

\* C10 as stated: every message with an order reference is classified
\* ORDER_TRACKING at 0.9 with the order id, and every message with order
\* keywords and no order id ORDER_TRACKING at 0.75.
C10_OrderReferenceAlways ==
   last.op = "classifyIntent" =>
      LET lower == toLowerCase(last.message)
          e     == extractEntities(last.message)
          c     == last.result
      IN  /\ OrderReferenceIn(lower) =>
                /\ c.intent = Intent.ORDER_TRACKING
                /\ c.confidence = 90
                /\ has(c.entities, "order_id")
          /\ (has(e, "order_keywords") /\ ~OrderReferenceIn(lower)) =>
                /\ c.intent = Intent.ORDER_TRACKING
                /\ c.confidence = 75

\* C10, amended: extraction yields the digits of the first order reference as
\* order_id; when neither the greeting rule nor the product rule matches, an
\* order reference gives ORDER_TRACKING at 0.9 with that order id, and order
\* keywords without an order id give ORDER_TRACKING at 0.75.
C10_OrderReferenceAfterProduct ==
   last.op = "classifyIntent" =>
      LET lower == toLowerCase(last.message)
          e     == extractEntities(last.message)
          c     == last.result
      IN  /\ OrderReferenceIn(lower) <=> has(e, "order_id")
          /\ has(e, "order_id") =>
                /\ e.order_id # << >>
                /\ Range(e.order_id) \subseteq Digits
                /\ \E t \in Range(OrderIdTriggers),
                      b \in {<< >>, <<" ">>, <<"#">>, <<" ", "#">>, <<":", " ">>} :
                         includes(lower, t \o b \o e.order_id)
          /\ last.message = M_order4521 => e.order_id = <<"4","5","2","1">>
          /\ last.message = M_nomor => e.order_id = <<"7","7","7">>
          /\ (~SaysGreeting(last.message) /\ ~ProductEvidence(e)) =>
                /\ has(e, "order_id") =>
                      /\ c.intent = Intent.ORDER_TRACKING
                      /\ c.confidence = 90
                      /\ c.entities.order_id = e.order_id
                /\ (has(e, "order_keywords") /\ ~has(e, "order_id")) =>
                      /\ c.intent = Intent.ORDER_TRACKING
                      /\ c.confidence = 75

\* "order #4521": ORDER_TRACKING at 0.9 with order id 4521
C10_Witness ==
   /\ last.op = "classifyIntent"
   /\ last.message = M_order4521
   /\ last.result.intent = Intent.ORDER_TRACKING
   /\ last.result.confidence = 90
   /\ last.result.entities.order_id = <<"4","5","2","1">>

\* the confidence of a classification is below the fallback threshold
GateTrips(classification) == classification.confidence < FallbackThreshold

\* a chat request arrives and is answered without suspending
AnsweredAtOnce ==
   /\ turns' = turns + 1
   /\ (turns + 1) \notin DOMAIN requests'
   /\ last'.status = 200

\* the context holds the turn-context update of the answered turn t, computed
\* from the state read at the start of the turn
TurnContextApplied(read, context, t) ==
   /\ context.lastMessage = t.message
   /\ context.lastResponse = t.response
   /\ context.turnCount = read.context.turnCount + 1
   /\ context.previousIntents =
         Append(read.context.previousIntents, t.classification.intent)

\* C11: a turn whose classification trips the fallback gate never suspends
\* at an action; it is answered at once with one of the fixed fallback
\* strings and no action call, and the turn-context update (lastMessage,
\* lastResponse, turnCount + 1, intent appended) is stored.
C11_FallbackCallsNothing ==
   [][ /\ \A r \in DOMAIN requests' : ~GateTrips(requests'[r].classification)
       /\ (last'.op = "chat" /\ last'.status # 400
              /\ GateTrips(last'.classification))
          => /\ last'.status = 200
             /\ last'.calls = << >>
             /\ last'.response \in Range(fallbackResponses)
       /\ (AnsweredAtOnce /\ GateTrips(last'.classification))
          => /\ requests' = requests
             /\ TurnContextApplied(
                   getConversationState(conversationStates,
                                        last'.sessionId).result,
                   conversationStates'[last'.sessionId].context, last')
     ]_vars

\* "ya, lanjutkan" in a new session, answered with the third fallback string
C11_Witness ==
   /\ last.op = "chat"
   /\ last.status = 200
   /\ last.message = M_lanjut
   /\ GateTrips(last.classification)
   /\ last.calls = << >>
   /\ last.response = "fallback_3"
   /\ conversationStates[last.sessionId].context.turnCount = 1
   /\ conversationStates[last.sessionId].context.previousIntents
         = << Intent.GENERAL_QUERY >>

\* the calls of a turn (a suspended frame or an answered one) may include
\* the user-status lookup only if the turn is a USER_STATUS turn with an
\* extracted user id and a cookie
UserStatusCallAllowed(t) ==
   "getUserStatusExternal" \in Range(t.calls) =>
      /\ t.classification.intent = Intent.USER_STATUS
      /\ has(t.classification.entities, "user_id")
      /\ has(extractEntities(t.message), "user_id")
      /\ t.laravelCookie # ""

\* a USER_STATUS turn that lacks the user id or the cookie
LacksLogin(t) ==
   /\ t.classification.intent = Intent.USER_STATUS
   /\ ~has(t.classification.entities, "user_id") \/ t.laravelCookie = ""

PrimaryCalls ==
   { "searchProductsExternal", "getOrderByIdExternal", "getUserStatusExternal",
     "getGroqResponse" }

\* the calls of a turn (a suspended frame or an answered one): nothing, one
\* primary call, or a product or order lookup that failed or came back empty
\* followed by the local lookup of the same kind
CallsOfOneKind(t) ==
   /\ Len(t.calls) <= 2
   /\ Len(t.results) <= Len(t.calls)
   /\ Len(t.calls) >= 1 => t.calls[1] \in PrimaryCalls
   /\ Len(t.calls) = 2 =>
         /\ Len(t.results) >= 1
         /\ \/ /\ t.calls = << "searchProductsExternal", "searchProducts" >>
               /\ t.results[1] \in {"empty", "throw"}
            \/ /\ t.calls = << "getOrderByIdExternal", "getOrderById" >>
               /\ t.results[1] \in {"null", "throw"}

\* C13: a turn makes at most one primary call and at most one local call;
\* the local call follows a product or order lookup of the same turn that
\* failed or returned nothing, and is of the same kind.
C13_OnePrimaryOneSecondary ==
   /\ \A r \in DOMAIN requests : CallsOfOneKind(requests[r])
   /\ (last.op = "chat" /\ last.status # 400) => CallsOfOneKind(last)

\* an order turn answered from the local provider after the external lookup
\* found nothing
C13_Witness ==
   /\ last.op = "chat"
   /\ last.status = 200
   /\ last.calls = << "getOrderByIdExternal", "getOrderById" >>
   /\ last.results = << "null", "order" >>
   /\ last.response = "local_order"

\* the first call of the turn was a product, order or user-status lookup
\* that failed or returned nothing
LookupFailed(t) ==
   /\ Len(t.results) >= 1
   /\ t.calls[1] \in { "searchProductsExternal", "getOrderByIdExternal",
                       "getUserStatusExternal" }
   /\ t.results[1] \in { "empty", "null", "throw" }

\* C14: after a product, order or user-status lookup failed or returned
\* nothing, the request goes on to the local lookup (product, order) and ends
\* with status 200, the session id and a response text: the local provider's
\* for product and order, a fixed apology with no local lookup for user
\* status; the turn-context update is stored with the response.
C14_LookupFailureRecovered ==
   [][ /\ \A r \in DOMAIN requests' :
             LookupFailed(requests'[r]) =>
                /\ requests'[r].calls[1] # "getUserStatusExternal"
                /\ requests'[r].pc \in {"searchProducts", "getOrderById"}
       /\ \A r \in (DOMAIN requests) \ (DOMAIN requests') :
             LookupFailed(last') =>
                /\ last'.status = 200
                /\ last'.sessionId = requests[r].sessionId
                /\ last'.sessionId \in Sessions
                /\ last'.response =
                      CASE last'.calls[1] = "searchProductsExternal" ->
                              "local_products"
                        [] last'.calls[1] = "getOrderByIdExternal" ->
                              "local_order"
                        [] last'.results[1] = "null" -> "user_not_found"
                        [] OTHER -> "user_status_unavailable"
                /\ last'.calls[1] = "getUserStatusExternal"
                      => Len(last'.calls) = 1
                /\ TurnContextApplied(
                      requests[r].conversationState,
                      conversationStates'[last'.sessionId].context, last')
     ]_vars

\* a user-status turn whose lookup threw: the fixed apology, stored as the
\* last response of the session
C14_Witness ==
   /\ last.op = "chat"
   /\ last.status = 200
   /\ last.calls = << "getUserStatusExternal" >>
   /\ last.results = << "throw" >>
   /\ last.response = "user_status_unavailable"
   /\ conversationStates[last.sessionId].context.lastResponse
         = "user_status_unavailable"
   /\ conversationStates[last.sessionId].context.turnCount = 1

\* the turn t called the general responder and the call failed
ResponderFailed(t) ==
   /\ t.results # << >>
   /\ Len(t.results) = Len(t.calls)
   /\ t.calls[Len(t.calls)] = "getGroqResponse"
   /\ t.results[Len(t.results)] = "throw"

\* the turns that reach the general responder: product turns without a
\* query term, order turns without an order id, and the intents the switch
\* has no case for
ReachesResponder(t) ==
   /\ t.calls = << "getGroqResponse" >>
   /\ t.classification.intent \notin {Intent.GREETING, Intent.USER_STATUS}
   /\ t.classification.intent = Intent.PRODUCT_SEARCH
         => productQueryOf(t.classification) = << >>
   /\ t.classification.intent = Intent.ORDER_TRACKING
         => orderIdOf(t.classification) = << >>

\* C15: the general responder is reached by product turns without a query
\* term, order turns without an order id and the default intents; when its
\* call fails the request ends with status 500 and the error body, never with
\* a response text, and no request ends with status 500 otherwise.
C15_ResponderFailurePropagates ==
   /\ \A r \in DOMAIN requests :
         /\ ~ResponderFailed(requests[r])
         /\ requests[r].pc = "getGroqResponse" => ReachesResponder(requests[r])
   /\ (last.op = "chat" /\ last.status # 400) =>
         /\ ResponderFailed(last) <=> last.status = 500
         /\ ResponderFailed(last) =>
               /\ ReachesResponder(last)
               /\ last.response = "An error occurred"

\* "warna merah", a product turn without a query term, whose general
\* responder call failed
C15_Witness ==
   /\ last.op = "chat"
   /\ last.status = 500
   /\ last.message = M_warna
   /\ last.classification.intent = Intent.PRODUCT_SEARCH
   /\ last.calls = << "getGroqResponse" >>
   /\ last.results = << "throw" >>

\* C16 as stated: a request is rejected exactly when its message is missing
\* or empty, and every other request ends with a response text and the
\* session id, never with an error.
C16_NeverAnError ==
   last.op = "chat" =>
      /\ last.status = 400 <=> last.message = << >>
      /\ last.message # << >> =>
            /\ last.status = 200
            /\ last.sessionId \in Sessions

\* C16, amended: a request is rejected as a client error exactly when its
\* message is missing or empty; every other request ends with a response text
\* and the session id, unless its call of the general responder failed, and
\* then it ends with status 500; a failed product, order or user-status
\* lookup always ends in a response text.
C16_ErrorOnlyFromResponder ==
   last.op = "chat" =>
      /\ last.status = 400 <=> last.message = << >>
      /\ last.message # << >> =>
            /\ last.status \in {200, 500}
            /\ last.status = 500 =>
                  last.calls[Len(last.calls)] = "getGroqResponse"
            /\ last.status = 200 =>
                  /\ last.sessionId \in Sessions
                  /\ last.response \in
                        Range(fallbackResponses) \cup Range(greetings)
                        \cup { "external_products", "local_products",
                               "external_order", "local_order", "user_status",
                               "user_not_found", "user_status_unavailable",
                               "please_login", "groq_content", "" }
            /\ (\E i \in 1..Len(last.results) :
                    /\ last.calls[i] # "getGroqResponse"
                    /\ last.results[i] = "throw")
                  => last.status = 200

\* a product turn whose external search threw, answered from the local
\* catalogue
C16_Witness ==
   /\ last.op = "chat"
   /\ last.status = 200
   /\ last.calls = << "searchProductsExternal", "searchProducts" >>
   /\ last.results = << "throw", "products" >>
   /\ last.response = "local_products"

\* a chat request arrives and is rejected
Rejected ==
   /\ turns' = turns + 1
   /\ (turns + 1) \notin DOMAIN requests'
   /\ last'.status = 400

\* C17: a request is rejected only for a missing or empty message, with
\* nothing classified and nothing called, and the step leaves the store, the
\* suspended requests and the turn counts as they were: no state is created
\* for the supplied or a generated session id; no turn with an empty message
\* is ever classified, suspended or answered.
C17_EmptyMessageTouchesNothing ==
   [][ /\ Rejected =>
             /\ last'.message = << >>
             /\ DOMAIN last' = {"op", "status", "sessionId", "message"}
             /\ conversationStates' = conversationStates
             /\ getAllSessionIds(conversationStates')
                   = getAllSessionIds(conversationStates)
             /\ requests' = requests
             /\ handled' = handled
       /\ \A r \in DOMAIN requests' : requests'[r].message # << >>
       /\ (last'.op = "chat" /\ last'.status # 400) => last'.message # << >>
     ]_vars

\* an empty message for session s1, which has no state, while another session
\* has one: s1 is still unknown to the store
C17_Witness ==
   /\ last.op = "chat"
   /\ last.status = 400
   /\ last.sessionId = "s1"
   /\ getAllSessionIds(conversationStates) = {"s2"}
   /\ turns = 2

\* the lowercased message contains a keyword of the product table
HasProductTerm(lowercaseMessage) ==
   \E kw \in Range(PRODUCT_KEYWORDS) : includes(lowercaseMessage, kw)

\* the lowercased message contains a keyword of the category table
HasCategoryKeyword(lowercaseMessage) ==
   \E p \in Range(CATEGORY_KEYWORDS) : includes(lowercaseMessage, p[1])

\* C18: for a message with a product keyword and no category keyword,
\* extractEntities sets category to "gamis"; category is absent only when the
\* message has neither a category keyword nor a product keyword.
C18_DefaultCategory ==
   last.op = "classifyIntent" =>
      LET lower == toLowerCase(last.message)
          e     == extractEntities(last.message)
      IN  /\ (HasProductTerm(lower) /\ ~HasCategoryKeyword(lower)) =>
                /\ has(e, "category")
                /\ e.category = <<"g","a","m","i","s">>
          /\ ~has(e, "category") =>
                (~HasProductTerm(lower) /\ ~HasCategoryKeyword(lower))

\* C19: two calls of classifyIntent on the same message with any two states
\* return the same entities, which are those extracted from the message or,
\* for a greeting, none; they return the same intent and confidence whenever
\* a rule above the context continuation matches the message; the store is
\* left as it was.
C19_StateOnlyInContinuation ==
   [][ ( /\ last.op = "classifyIntent"
         /\ last'.op = "classifyIntent"
         /\ last'.message = last.message ) =>
          /\ last'.result.entities = last.result.entities
          /\ last'.result.entities
                = IF SaysGreeting(last.message) THEN EmptyObject
                  ELSE extractEntities(last.message)
          /\ ~NoRuleMatches(last.message) =>
                /\ last'.result.intent = last.result.intent
                /\ last'.result.confidence = last.result.confidence
          /\ conversationStates' = conversationStates
     ]_vars

\* "ya, lanjutkan" classified with a state that tracks an order and holds
\* its order id: the intent comes from the state, the entities do not
C19_Witness ==
   /\ last.op = "classifyIntent"
   /\ last.message = M_lanjut
   /\ last.state # UNDEFINED
   /\ last.state.currentIntent = Intent.ORDER_TRACKING
   /\ has(last.state.entities, "order_id")
   /\ last.result.intent = Intent.ORDER_TRACKING
   /\ last.result.entities = EmptyObject

\* a product turn without a query term or an order turn without an order id
NoLookupTerm(t) ==
   \/ /\ t.classification.intent = Intent.PRODUCT_SEARCH
      /\ ~has(t.classification.entities, "product_name")
      /\ ~has(t.classification.entities, "product_keywords")
   \/ /\ t.classification.intent = Intent.ORDER_TRACKING
      /\ ~has(t.classification.entities, "order_id")

\* C20: a product turn without a query term and an order turn without an
\* order id call the general responder and nothing else; when answered, the
\* session's lastProductSearch and lastOrderId are what they were before the
\* answer, and the context holds one turn-context update: turnCount one above
\* the value read at the start of the turn, and the intent appended.
C20_NoTermGoesToResponder ==
   [][ /\ \A r \in DOMAIN requests' :
             NoLookupTerm(requests'[r]) =>
                /\ requests'[r].calls = << "getGroqResponse" >>
                /\ requests'[r].pc = "getGroqResponse"
       /\ (last'.op = "chat" /\ last'.status # 400 /\ NoLookupTerm(last'))
             => last'.calls = << "getGroqResponse" >>
       /\ \A r \in (DOMAIN requests) \ (DOMAIN requests') :
             (NoLookupTerm(last') /\ last'.status = 200) =>
                LET before == getConversationState(conversationStates,
                                 last'.sessionId).result.context
                    after  == conversationStates'[last'.sessionId].context
                IN  /\ DOMAIN after = DOMAIN before
                    /\ \A k \in {"lastProductSearch", "lastOrderId"} :
                          has(before, k) => after[k] = before[k]
                    /\ TurnContextApplied(requests[r].conversationState,
                                          after, last')
     ]_vars

\* "cek pesanan saya", an order turn with no order id, answered by the
\* general responder in a new session: no lastOrderId is recorded
C20_Witness ==
   /\ last.op = "chat"
   /\ last.status = 200
   /\ last.message = M_cekPesanan
   /\ last.classification.intent = Intent.ORDER_TRACKING
   /\ last.calls = << "getGroqResponse" >>
   /\ last.response = "groq_content"
   /\ ~has(conversationStates[last.sessionId].context, "lastOrderId")
   /\ conversationStates[last.sessionId].context.turnCount = 1

\* a turn ends in this step: a suspended request is answered, or an arriving
\* one is answered without suspending
TurnEnds ==
   \/ (DOMAIN requests) \ (DOMAIN requests') # {}
   \/ turns' = turns + 1 /\ (turns + 1) \notin DOMAIN requests'

\* the step answers a product-search turn of session s that had a query term
RecordsSearch(s) ==
   /\ TurnEnds
   /\ last'.status = 200
   /\ last'.sessionId = s
   /\ last'.classification.intent = Intent.PRODUCT_SEARCH
   /\ productQueryOf(last'.classification) # << >>

\* the step answers an order-tracking turn of session s that had an order id
RecordsOrder(s) ==
   /\ TurnEnds
   /\ last'.status = 200
   /\ last'.sessionId = s
   /\ last'.classification.intent = Intent.ORDER_TRACKING
   /\ orderIdOf(last'.classification) # << >>

\* the step clears session s
Clears(s) ==
   /\ turns' = turns
   /\ requests' = requests
   /\ last'.op = "clearConversationState"
   /\ last'.sessionId = s

\* the context key of session s keeps its value over the step
KeepsKey(s, key) ==
   has(conversationStates[s].context, key) =>
      /\ s \in DOMAIN conversationStates'
      /\ has(conversationStates'[s].context, key)
      /\ conversationStates'[s].context[key] = conversationStates[s].context[key]

\* C21: a product-search turn that had a query term leaves that term in
\* context.lastProductSearch, an order-tracking turn that had an order id
\* leaves that id in context.lastOrderId, and each of the two values stays as
\* it is through every later step of the session (turns of any other kind,
\* failed turns included) until a later search or lookup overwrites it or the
\* session is cleared.
C21_LastSearchAndOrderPersist ==
   [][ \A s \in Sessions :
          /\ RecordsSearch(s) =>
                /\ s \in DOMAIN conversationStates'
                /\ has(conversationStates'[s].context, "lastProductSearch")
                /\ conversationStates'[s].context.lastProductSearch =
                      productQueryOf(last'.classification)
          /\ RecordsOrder(s) =>
                /\ s \in DOMAIN conversationStates'
                /\ has(conversationStates'[s].context, "lastOrderId")
                /\ conversationStates'[s].context.lastOrderId =
                      orderIdOf(last'.classification)
          /\ (s \in DOMAIN conversationStates /\ ~Clears(s)) =>
                /\ RecordsSearch(s) \/ KeepsKey(s, "lastProductSearch")
                /\ RecordsOrder(s) \/ KeepsKey(s, "lastOrderId")
     ]_vars

\* a session whose first turn searched for a product and whose second turn, a
\* greeting, has been answered: the search term is still in the context
C21_Witness ==
   /\ last.op = "chat"
   /\ last.status = 200
   /\ last.classification.intent = Intent.GREETING
   /\ last.sessionId \in DOMAIN conversationStates
   /\ conversationStates[last.sessionId].context.turnCount = 2
   /\ conversationStates[last.sessionId].context.previousIntents[1] =
         Intent.PRODUCT_SEARCH
   /\ has(conversationStates[last.sessionId].context, "lastProductSearch")
   /\ conversationStates[last.sessionId].context.lastProductSearch # << >>

\* the state of session s as a turn arriving now would read it
StateAtStart(s) ==
   IF s \in DOMAIN conversationStates
   THEN conversationStates[s]
   ELSE createConversationState(s)

\* the step answers a turn of session s with a response
Answers(s) ==
   /\ TurnEnds
   /\ last'.status = 200
   /\ last'.sessionId = s

\* a request of session s arrives in this step and calls the general responder
CallsResponder(s) ==
   /\ turns' = turns + 1
   /\ (turns + 1) \in DOMAIN requests'
   /\ requests'[turns + 1].sessionId = s
   /\ requests'[turns + 1].pc = "getGroqResponse"

\* C22: the general responder is given a summary of the prior turn exactly
\* when the session's turnCount at the start of the turn is above 0, and the
\* summary holds the lastMessage and lastResponse the session had at the start
\* of the turn; these are the message and the response of the last turn that
\* was answered, because answering a turn stores them and no other step short
\* of a clear (the pre-dispatch update, a failed turn) changes them or the
\* turnCount.
C22_PromptFromPreviousTurn ==
   [][ \A s \in Sessions :
          /\ CallsResponder(s) =>
                /\ requests'[turns + 1].contextPrompt.present
                      <=> StateAtStart(s).context.turnCount > 0
                /\ requests'[turns + 1].contextPrompt.present =>
                      /\ requests'[turns + 1].contextPrompt.lastMessage =
                            StateAtStart(s).context.lastMessage
                      /\ requests'[turns + 1].contextPrompt.lastResponse =
                            StateAtStart(s).context.lastResponse
          /\ Answers(s) =>
                /\ conversationStates'[s].context.lastMessage = last'.message
                /\ conversationStates'[s].context.lastResponse = last'.response
                /\ conversationStates'[s].context.turnCount > 0
          /\ (s \in DOMAIN conversationStates /\ ~Answers(s) /\ ~Clears(s)) =>
                /\ s \in DOMAIN conversationStates'
                /\ conversationStates'[s].context.lastMessage =
                      conversationStates[s].context.lastMessage
                /\ conversationStates'[s].context.lastResponse =
                      conversationStates[s].context.lastResponse
                /\ conversationStates'[s].context.turnCount =
                      conversationStates[s].context.turnCount
     ]_vars

\* a second turn waiting for the general responder with the summary of the
\* first turn, whose message was a different one
C22_Witness ==
   \E r \in DOMAIN requests :
      /\ requests[r].pc = "getGroqResponse"
      /\ requests[r].contextPrompt.present
      /\ requests[r].contextPrompt.lastMessage # requests[r].message
      /\ requests[r].contextPrompt.lastMessage =
            requests[r].conversationState.context.lastMessage
      /\ requests[r].conversationState.context.turnCount = 1

\* a request with a message arrives for session s in this step
Arrives(s) ==
   /\ turns' = turns + 1
   /\ IF (turns + 1) \in DOMAIN requests'
      THEN requests'[turns + 1].sessionId = s
      ELSE last'.status = 200 /\ last'.sessionId = s

\* the request arriving in this step, as far as both a suspended and an
\* answered request record it
Arriving ==
   IF (turns + 1) \in DOMAIN requests'
   THEN [ message        |-> requests'[turns + 1].message,
          classification |-> requests'[turns + 1].classification ]
   ELSE [ message        |-> last'.message,
          classification |-> last'.classification ]

\* the step answers an arriving request with one of the fallback replies
FallbackReply ==
   /\ AnsweredAtOnce
   /\ last'.response \in Range(fallbackResponses)

\* C23: between its creation and a clear a session gets the fallback reply
\* for its first message only: every stored state has a non-null
\* currentIntent, so a message arriving for a session that has a state is
\* never answered with the fallback reply; if no rule matches it, it is
\* classified as the session's currentIntent at confidence 0.5 and dispatched,
\* and after an unrecognised first message (currentIntent GENERAL_QUERY) it
\* goes to the general responder.
C23_FallbackOnlyFirstMessage ==
   [][ \A s \in Sessions :
          /\ s \in DOMAIN conversationStates' =>
                conversationStates'[s].currentIntent # NULL
          /\ (Arrives(s) /\ s \in DOMAIN conversationStates) =>
                /\ ~FallbackReply
                /\ NoRuleMatches(Arriving.message) =>
                      /\ Arriving.classification.intent =
                            conversationStates[s].currentIntent
                      /\ Arriving.classification.confidence = 50
                      /\ conversationStates[s].currentIntent
                            = Intent.GENERAL_QUERY =>
                            /\ (turns + 1) \in DOMAIN requests'
                            /\ requests'[turns + 1].pc = "getGroqResponse"
     ]_vars

\* the second of two unrecognised messages of a session waits for the general
\* responder as a general query at 0.5; the first got the fallback reply
C23_Witness ==
   \E r \in DOMAIN requests :
      /\ requests[r].pc = "getGroqResponse"
      /\ NoRuleMatches(requests[r].message)
      /\ requests[r].classification.intent = Intent.GENERAL_QUERY
      /\ requests[r].classification.confidence = 50
      /\ requests[r].conversationState.context.turnCount = 1
      /\ requests[r].conversationState.context.lastResponse
            \in Range(fallbackResponses)

\* C24: in every reachable state of the store, with turns of one session
\* overlapping, turns failing and sessions cleared while a turn is suspended,
\* the previousIntents of every session has as many entries as its turnCount
\* says.
C24_IntentsMatchTurnCount ==
   \A s \in DOMAIN conversationStates :
      Len(conversationStates[s].context.previousIntents) =
         conversationStates[s].context.turnCount

\* a session cleared while its second turn was suspended: the resumed turn
\* stored a state again, with two turns counted and two intents recorded
C24_Witness ==
   \E s \in DOMAIN conversationStates :
      /\ handled[s] = 1
      /\ conversationStates[s].currentIntent = NULL
      /\ conversationStates[s].context.turnCount = 2
      /\ Len(conversationStates[s].context.previousIntents) = 2

\* the intents no rule above the context continuation is meant to return
UnreturnedIntents == { Intent.ORDER_ACTION, Intent.FALLBACK }

\* the state carries neither intent, as currentIntent or in previousIntents
FreeOfUnreturned(state) ==
   \/ state = UNDEFINED
   \/ /\ state.currentIntent \notin UnreturnedIntents
      /\ Range(state.context.previousIntents) \cap UnreturnedIntents = {}

\* C25: every message that sets order_action also sets order_keywords, so the
\* order-tracking rule or an earlier one answers it, and classifyIntent
\* returns neither ORDER_ACTION nor FALLBACK for a state that carries neither;
\* the router stores only null and returned intents, so no state it reaches
\* carries them.
C25_NeverOrderActionNorFallback ==
   last.op = "classifyIntent" =>
      /\ has(extractEntities(last.message), "order_action") =>
            has(extractEntities(last.message), "order_keywords")
      /\ FreeOfUnreturned(last.state) =>
            last.result.intent \notin UnreturnedIntents

\* "batalkan" after a turn of another intent: order_action is set and the
\* order-tracking rule answers
C25_Witness ==
   /\ last.op = "classifyIntent"
   /\ last.message = M_batalkan
   /\ last.state # UNDEFINED
   /\ last.state.currentIntent = Intent.GENERAL_QUERY
   /\ has(last.result.entities, "order_action")
   /\ last.result.entities.order_action = "cancel"
   /\ last.result.intent = Intent.ORDER_TRACKING

\* C26: when a turn ends in a failure of the general responder, the context
\* of its session is the one read at the start of the turn (turnCount,
\* lastMessage, lastResponse, previousIntents, lastProductSearch and
\* lastOrderId as they were), while the pre-dispatch update stays:
\* currentIntent and confidence are those of the failed turn's classification,
\* its entities are merged into the stored ones, and context continuation on
\* the stored state returns the failed turn's intent.
C26_FailedTurnKeepsPreDispatch ==
   [][ \A r \in (DOMAIN requests) \ (DOMAIN requests') :
          (last'.status = 500 /\ ResponderFailed(last')) =>
             /\ last'.sessionId \in DOMAIN conversationStates'
             /\ conversationStates'[last'.sessionId].context =
                   requests[r].conversationState.context
             /\ conversationStates'[last'.sessionId].currentIntent =
                   last'.classification.intent
             /\ conversationStates'[last'.sessionId].confidence =
                   last'.classification.confidence
             /\ conversationStates'[last'.sessionId].entities =
                   spread(requests[r].conversationState.entities,
                          last'.classification.entities)
             /\ continuationOrDefault(conversationStates'[last'.sessionId],
                                      EmptyObject).intent =
                   last'.classification.intent
     ]_vars

\* the first turn of a session, a colour question, failed at the general
\* responder: no turn is counted, and the next message, which no rule
\* matches, is classified as a product search by continuation
C26_Witness ==
   /\ last.op = "chat"
   /\ last.status = 500
   /\ last.classification.intent = Intent.PRODUCT_SEARCH
   /\ \E r \in DOMAIN requests :
         /\ requests[r].sessionId = last.sessionId
         /\ NoRuleMatches(requests[r].message)
         /\ requests[r].conversationState.context.turnCount = 0
         /\ requests[r].conversationState.currentIntent = Intent.PRODUCT_SEARCH
         /\ has(requests[r].conversationState.entities, "color")
         /\ requests[r].classification.intent = Intent.PRODUCT_SEARCH
         /\ requests[r].classification.confidence = 50

\* the sessions whose stored state the step creates, removes or changes
Touched ==
   { s \in Sessions :
        \/ (s \in DOMAIN conversationStates) # (s \in DOMAIN conversationStates')
        \/ /\ s \in DOMAIN conversationStates
           /\ s \in DOMAIN conversationStates'
           /\ conversationStates'[s] # conversationStates[s] }

\* the session the step is for: that of the arriving request, of the request
\* that resumes, or of the store operation
StepSession ==
   IF (turns + 1) \in DOMAIN requests'
   THEN requests'[turns + 1].sessionId
   ELSE IF \E r \in DOMAIN requests :
              r \notin DOMAIN requests' \/ requests'[r] # requests[r]
   THEN requests[CHOOSE r \in DOMAIN requests :
                    r \notin DOMAIN requests' \/ requests'[r] # requests[r]
                ].sessionId
   ELSE last'.sessionId

\* C27: sessions are isolated: whatever the interleaving, a step of a chat
\* turn (with the updateState calls it makes) or a clearConversationState for
\* one session leaves the stored state of every other session as it was and
\* neither creates nor removes another session; a turn creates only the
\* session whose id it returns.
C27_SessionsIsolated ==
   [][ /\ \A s \in Touched : s = StepSession
       /\ \A r \in (DOMAIN requests) \ (DOMAIN requests') :
             last'.sessionId = requests[r].sessionId
       /\ AnsweredAtOnce =>
             (DOMAIN conversationStates') \ (DOMAIN conversationStates)
                \subseteq {last'.sessionId}
     ]_vars

\* a turn of one session answered while a turn of another session, which
\* created its state, is still suspended: that state has no turn counted
C27_Witness ==
   /\ last.op = "chat"
   /\ last.status = 200
   /\ last.sessionId \in DOMAIN conversationStates
   /\ conversationStates[last.sessionId].context.turnCount = 1
   /\ \E r \in DOMAIN requests :
         /\ requests[r].sessionId # last.sessionId
         /\ requests[r].sessionId \in DOMAIN conversationStates
         /\ conversationStates[requests[r].sessionId].context.turnCount = 0
         /\ conversationStates[requests[r].sessionId].currentIntent =
               requests[r].classification.intent

=============================================================================
